---------------------------- MODULE Spec2Model ----------------------------
(***************************************************************************)
(* TranscriptPolish: the rule engine (processTranscriptContent), the       *)
(* structural formatter (applyLVMPDStructure), the header generator        *)
(* (generateLVMPDHeader) and the validator (validateTranscript).           *)
(*                                                                         *)
(* A text is a sequence of characters; a character is a one-character      *)
(* string, except the em dash U+2014, written "EMDASH" (one UTF-16 unit).  *)
(* Regular expressions are syntax trees run by a backtracking matcher with *)
(* the ECMAScript semantics the code relies on (leftmost match, ordered    *)
(* alternation, greedy quantifiers, \b, ^ and $, capture groups).          *)
(***************************************************************************)
EXTENDS Integers, Sequences, FiniteSets, TLC

(***************************************************************************)
(* Characters                                                              *)
(***************************************************************************)
Uppers == <<"A","B","C","D","E","F","G","H","I","J","K","L","M",
            "N","O","P","Q","R","S","T","U","V","W","X","Y","Z">>
Lowers == <<"a","b","c","d","e","f","g","h","i","j","k","l","m",
            "n","o","p","q","r","s","t","u","v","w","x","y","z">>
UpperSet == {Uppers[i] : i \in 1..26}
LowerSet == {Lowers[i] : i \in 1..26}
DigitSet == {"0","1","2","3","4","5","6","7","8","9"}
\* \w
WordSet == UpperSet \cup LowerSet \cup DigitSet \cup {"_"}
\* \s (the white space and line terminators that can occur in a text file)
SpaceSet == {" ", "\t", "\n", "\r", "\f"}
\* the characters . does not match, and that ^ and $ stop at under /m
LineTerminators == {"\n", "\r"}

toLowerCase == [c \in UpperSet |-> Lowers[CHOOSE i \in 1..26 : Uppers[i] = c]]
toUpperCase == [c \in LowerSet |-> Uppers[CHOOSE i \in 1..26 : Lowers[i] = c]]
LowerChar(c) == IF c \in UpperSet THEN toLowerCase[c] ELSE c
UpperChar(c) == IF c \in LowerSet THEN toUpperCase[c] ELSE c

RECURSIVE MapChars(_, _)
\* String.prototype.toUpperCase / toLowerCase, by the flag
MapChars(s, up) ==
  IF s = <<>> THEN <<>>
  ELSE <<IF up THEN UpperChar(Head(s)) ELSE LowerChar(Head(s))>> \o MapChars(Tail(s), up)

(***************************************************************************)
(* Regular expressions: syntax                                             *)
(***************************************************************************)
Chars(set)      == [t |-> "chars", set |-> set]
NotChars(set)   == [t |-> "notchars", set |-> set]
AnyChar         == [t |-> "notchars", set |-> LineTerminators]
WordB           == [t |-> "wordb"]
Bol             == [t |-> "bol"]
Eol             == [t |-> "eol"]
LookBehind(set) == [t |-> "lookbehind", set |-> set]
Cat(parts)      == [t |-> "seq", parts |-> parts]
Alt(alts)       == [t |-> "alt", alts |-> alts]
\* max = -1: unbounded
Rep(node, min, max) == [t |-> "rep", node |-> node, min |-> min, max |-> max]
Star(node)      == Rep(node, 0, -1)
Plus(node)      == Rep(node, 1, -1)
Opt(node)       == Rep(node, 0, 1)
Group(idx, node) == [t |-> "group", idx |-> idx, node |-> node]
\* a literal string
Lit(str)        == Cat([i \in 1..Len(str) |-> Chars({str[i]})])
Digit           == Chars(DigitSet)
Space           == Chars(SpaceSet)

\* flags: i (ignoreCase), m (multiline); every pattern used with match/replace
\* below is global (g)
RegExp(ast, i, m) == [ast |-> ast, i |-> i, m |-> m]

(***************************************************************************)
(* Regular expressions: the backtracking matcher                           *)
(***************************************************************************)
NoCaps == <<<<0, 0>>, <<0, 0>>, <<0, 0>>>>

IsWordAt(s, p) == p >= 1 /\ p <= Len(s) /\ s[p] \in WordSet

CharIn(c, set, re) ==
  IF re.i THEN LowerChar(c) \in {LowerChar(x) : x \in set} ELSE c \in set

RECURSIVE Run(_, _, _, _)
RECURSIVE RunSeq(_, _, _, _, _)
RECURSIVE RunEach(_, _, _, _, _, _, _)
RECURSIVE RunAlt(_, _, _, _, _)
RECURSIVE RunRep(_, _, _, _, _)
RECURSIVE RunRepEach(_, _, _, _, _, _, _)

\* The states (position, captures) in which node n can end when started in
\* state st, in the order the backtracking matcher tries them.
Run(n, s, st, re) ==
  CASE n.t = "chars" ->
         IF st.pos <= Len(s) /\ CharIn(s[st.pos], n.set, re)
         THEN <<[st EXCEPT !.pos = @ + 1]>> ELSE <<>>
    [] n.t = "notchars" ->
         IF st.pos <= Len(s) /\ ~CharIn(s[st.pos], n.set, re)
         THEN <<[st EXCEPT !.pos = @ + 1]>> ELSE <<>>
    [] n.t = "wordb" ->
         IF IsWordAt(s, st.pos - 1) # IsWordAt(s, st.pos) THEN <<st>> ELSE <<>>
    [] n.t = "bol" ->
         IF st.pos = 1 \/ (re.m /\ s[st.pos - 1] \in LineTerminators)
         THEN <<st>> ELSE <<>>
    [] n.t = "eol" ->
         IF st.pos = Len(s) + 1 \/ (re.m /\ s[st.pos] \in LineTerminators)
         THEN <<st>> ELSE <<>>
    [] n.t = "lookbehind" ->
         IF st.pos > 1 /\ CharIn(s[st.pos - 1], n.set, re) THEN <<st>> ELSE <<>>
    [] n.t = "seq" -> RunSeq(n.parts, 1, s, st, re)
    [] n.t = "alt" -> RunAlt(n.alts, 1, s, st, re)
    [] n.t = "rep" -> RunRep(n, 0, s, st, re)
    [] n.t = "group" ->
         LET ends == Run(n.node, s, st, re)
         IN  [j \in 1..Len(ends) |->
                [ends[j] EXCEPT !.caps[n.idx] = <<st.pos, ends[j].pos>>]]

RunSeq(parts, k, s, st, re) ==
  IF k > Len(parts) THEN <<st>>
  ELSE LET sts == Run(parts[k], s, st, re)
       IN  RunEach(sts, 1, Len(sts), parts, k + 1, s, re)

\* the rest of the sequence from each of sts[lo..hi], in order
RunEach(sts, lo, hi, parts, k, s, re) ==
  IF lo > hi THEN <<>>
  ELSE IF lo = hi THEN RunSeq(parts, k, s, sts[lo], re)
  ELSE LET mid == (lo + hi) \div 2
       IN  RunEach(sts, lo, mid, parts, k, s, re)
           \o RunEach(sts, mid + 1, hi, parts, k, s, re)

RunAlt(alts, k, s, st, re) ==
  IF k > Len(alts) THEN <<>>
  ELSE Run(alts[k], s, st, re) \o RunAlt(alts, k + 1, s, st, re)

\* whether node n is one character class and c is in it
IsCharNode(n) == n.t \in {"chars", "notchars"}
CharOk(n, c, re) == (n.t = "chars") = CharIn(c, n.set, re)

\* a quantified character class: the longest run of its characters first,
\* then each shorter one down to the minimum
RunCharRep(n, s, st, re) ==
  LET room == Len(s) - st.pos + 1
      limit == IF n.max = -1 \/ n.max > room THEN room ELSE n.max
      runs == {k \in 0..limit :
                 \A j \in 1..k : CharOk(n.node, s[st.pos + j - 1], re)}
      top == Cardinality(runs) - 1
  IN  IF top < n.min THEN <<>>
      ELSE [j \in 1..(top - n.min + 1) |-> [st EXCEPT !.pos = st.pos + top - j + 1]]

\* greedy: one more iteration first, stopping here last; an iteration that
\* consumed nothing is not repeated
RunRep(n, count, s, st, re) ==
  IF IsCharNode(n.node) /\ count = 0 THEN RunCharRep(n, s, st, re)
  ELSE
  LET steps == SelectSeq(Run(n.node, s, st, re), LAMBDA x : x.pos > st.pos)
      more == IF n.max = -1 \/ count < n.max
              THEN RunRepEach(steps, 1, Len(steps), n, count + 1, s, re)
              ELSE <<>>
  IN  more \o (IF count >= n.min THEN <<st>> ELSE <<>>)

RunRepEach(sts, lo, hi, n, count, s, re) ==
  IF lo > hi THEN <<>>
  ELSE IF lo = hi THEN RunRep(n, count, s, sts[lo], re)
  ELSE LET mid == (lo + hi) \div 2
       IN  RunRepEach(sts, lo, mid, n, count, s, re)
           \o RunRepEach(sts, mid + 1, hi, n, count, s, re)

None == [start |-> 0, end |-> 0, caps |-> NoCaps]

\* the ways the pattern matches when started at position i
MatchAt(re, s, i) == Run(re.ast, s, [pos |-> i, caps |-> NoCaps], re)

\* RegExp.prototype.exec from lastIndex i: the leftmost match at or after i
ExecFrom(re, s, i) ==
  LET starts == {j \in i..(Len(s) + 1) : MatchAt(re, s, j) # <<>>}
  IN  IF starts = {} THEN None
      ELSE LET j == CHOOSE j \in starts : \A k \in starts : j <= k
               r == MatchAt(re, s, j)
           IN  [start |-> j, end |-> r[1].pos, caps |-> r[1].caps]

RECURSIVE MatchAllFrom(_, _, _)
\* the successive matches of a global pattern; after an empty match
\* lastIndex advances by one
MatchAllFrom(re, s, i) ==
  LET m == ExecFrom(re, s, i)
  IN  IF m = None THEN <<>>
      ELSE <<m>> \o MatchAllFrom(re, s, IF m.end = m.start THEN m.end + 1 ELSE m.end)

\* String.prototype.match(re) || [] for a global re, as match records
MatchAll(re, s) == MatchAllFrom(re, s, 1)

\* RegExp.prototype.test / a non-null match
Test(re, s) == ExecFrom(re, s, 1) # None

Slice(s, a, b) == IF a > b THEN <<>> ELSE SubSeq(s, a, b)

NumberWords == << <<"o","n","e">>, <<"t","w","o">>, <<"t","h","r","e","e">>,
                  <<"f","o","u","r">>, <<"f","i","v","e">>, <<"s","i","x">>,
                  <<"s","e","v","e","n">>, <<"e","i","g","h","t">>,
                  <<"n","i","n","e">>, <<"t","e","n">> >>

RECURSIVE parseInt(_)
\* parseInt of a string of decimal digits
parseInt(str) ==
  IF str = <<>> THEN 0
  ELSE 10 * parseInt(SubSeq(str, 1, Len(str) - 1))
       + (CHOOSE d \in 0..9 : ToString(d) = str[Len(str)])

RECURSIVE Expand(_, _, _)
\* a replacement template: "$1", "$2", "$3" stand for the captures
Expand(tpl, s, m) ==
  IF tpl = <<>> THEN <<>>
  ELSE (IF Head(tpl) \in {"$1", "$2", "$3"}
        THEN LET k == CHOOSE k \in 1..3 : Head(tpl) = <<"$1", "$2", "$3">>[k]
             IN  IF m.caps[k][1] = 0 THEN <<>>
                 ELSE Slice(s, m.caps[k][1], m.caps[k][2] - 1)
        ELSE <<Head(tpl)>>) \o Expand(Tail(tpl), s, m)

\* replacement: a template string, or the function of spell_numbers_1_10
Replacement(repl, s, m) ==
  IF repl.kind = "fn"
  THEN NumberWords[parseInt(Slice(s, m.start, m.end - 1))]
  ELSE Expand(repl.tpl, s, m)

RECURSIVE ReplaceFrom(_, _, _, _, _)
ReplaceFrom(ms, k, s, prev, repl) ==
  IF k > Len(ms) THEN Slice(s, prev, Len(s))
  ELSE Slice(s, prev, ms[k].start - 1) \o Replacement(repl, s, ms[k])
       \o ReplaceFrom(ms, k + 1, s, ms[k].end, repl)

\* String.prototype.replace(re, repl) for a global re
Replace(re, s, repl) == ReplaceFrom(MatchAll(re, s), 1, s, 1, repl)

Tpl(str) == [kind |-> "tpl", tpl |-> str]

(***************************************************************************)
(* The rule table (transcript-processor.ts, LVMPD_PROCESSING_RULES)        *)
(***************************************************************************)
\* /\n{3,}/g
clean_multiple_newlines_pre ==
  [name |-> "clean_multiple_newlines_pre", category |-> "structure",
   priority |-> 1,
   pattern |-> RegExp(Rep(Chars({"\n"}), 3, -1),
                      FALSE, FALSE),
   replacement |-> Tpl(<<"\n","\n">>)]

\* /\bMh\b/g
discourse_markers ==
  [name |-> "discourse_markers", category |-> "discourse",
   priority |-> 10,
   pattern |-> RegExp(Cat(<<WordB, Lit(<<"M","h">>), WordB>>),
                      FALSE, FALSE),
   replacement |-> Tpl(<<"M","h","-","M","h">>)]

\* /\b(mm-?hm|mhm|mmm|hmm)\b/gi
mmhm_standardization ==
  [name |-> "mmhm_standardization", category |-> "discourse",
   priority |-> 10,
   pattern |-> RegExp(Cat(<<WordB, Group(1, Alt(<<Cat(<<Lit(<<"m","m">>),
                     Opt(Chars({"-"})), Lit(<<"h","m">>)>>),
                     Lit(<<"m","h","m">>), Lit(<<"m","m","m">>),
                     Lit(<<"h","m","m">>)>>)), WordB>>),
                      TRUE, FALSE),
   replacement |-> Tpl(<<"M","m","h","m">>)]

\* /\b(uh|uhh|um|umm)\b/gi
uh_standardization ==
  [name |-> "uh_standardization", category |-> "discourse",
   priority |-> 10,
   pattern |-> RegExp(Cat(<<WordB, Group(1, Alt(<<Lit(<<"u","h">>),
                     Lit(<<"u","h","h">>), Lit(<<"u","m">>),
                     Lit(<<"u","m","m">>)>>)), WordB>>),
                      TRUE, FALSE),
   replacement |-> Tpl(<<"U","h">>)]

\* /\b(yeah|yah|ya)\b/gi
yeah_standardization ==
  [name |-> "yeah_standardization", category |-> "discourse",
   priority |-> 10,
   pattern |-> RegExp(Cat(<<WordB, Group(1, Alt(<<Lit(<<"y","e","a","h">>),
                     Lit(<<"y","a","h">>), Lit(<<"y","a">>)>>)), WordB>>),
                      TRUE, FALSE),
   replacement |-> Tpl(<<"Y","e","a","h">>)]

\* a pattern without the word boundaries: /(1|2|3|4|5|6|7|8|9|10)/g
spell_numbers_unbounded ==
  [name |-> "spell_numbers_1_10", category |-> "numbers",
   priority |-> 15,
   pattern |-> RegExp(Group(1, Alt(<<Lit(<<"1">>), Lit(<<"2">>),
                     Lit(<<"3">>), Lit(<<"4">>), Lit(<<"5">>), Lit(<<"6">>),
                     Lit(<<"7">>), Lit(<<"8">>), Lit(<<"9">>),
                     Lit(<<"1","0">>)>>)),
                      FALSE, FALSE),
   replacement |-> [kind |-> "fn"]]

\* /\b(1|2|3|4|5|6|7|8|9|10)\b/g
spell_numbers_1_10 ==
  [name |-> "spell_numbers_1_10", category |-> "numbers",
   priority |-> 15,
   pattern |-> RegExp(Cat(<<WordB, Group(1, Alt(<<Lit(<<"1">>), Lit(<<"2">>),
                     Lit(<<"3">>), Lit(<<"4">>), Lit(<<"5">>), Lit(<<"6">>),
                     Lit(<<"7">>), Lit(<<"8">>), Lit(<<"9">>),
                     Lit(<<"1","0">>)>>)), WordB>>),
                      FALSE, FALSE),
   replacement |-> [kind |-> "fn"]]

\* /\b(\d+)(st|nd|rd|th)\b/g
remove_date_ordinals ==
  [name |-> "remove_date_ordinals", category |-> "dates",
   priority |-> 15,
   pattern |-> RegExp(Cat(<<WordB, Group(1, Plus(Digit)), Group(2,
                     Alt(<<Lit(<<"s","t">>), Lit(<<"n","d">>),
                     Lit(<<"r","d">>), Lit(<<"t","h">>)>>)), WordB>>),
                      FALSE, FALSE),
   replacement |-> Tpl(<<"$1">>)]

\* /\b(\d{1,2}):(\d{2})\s*(a\.?m\.?|p\.?m\.?)\b/gi
time_format ==
  [name |-> "time_format", category |-> "time",
   priority |-> 15,
   pattern |-> RegExp(Cat(<<WordB, Group(1, Rep(Digit, 1, 2)), Chars({":"}),
                     Group(2, Rep(Digit, 2, 2)), Star(Space), Group(3,
                     Alt(<<Cat(<<Chars({"a"}), Opt(Chars({"."})),
                     Chars({"m"}), Opt(Chars({"."}))>>), Cat(<<Chars({"p"}),
                     Opt(Chars({"."})), Chars({"m"}),
                     Opt(Chars({"."}))>>)>>)), WordB>>),
                      TRUE, FALSE),
   replacement |-> Tpl(<<"$1",":","$2"," ","$3">>)]

\* /\bejaculation\b/gi
ejaculation_correction ==
  [name |-> "ejaculation_correction", category |-> "corrections",
   priority |-> 20,
   pattern |-> RegExp(Cat(<<WordB,
                     Lit(<<"e","j","a","c","u","l","a","t","i","o","n">>),
                     WordB>>),
                      TRUE, FALSE),
   replacement |-> Tpl(<<"e","j","a","c","u","l","a","t","e">>)]

\* /\bpacific\b/gi
pacific_specific_correction ==
  [name |-> "pacific_specific_correction", category |-> "corrections",
   priority |-> 20,
   pattern |-> RegExp(Cat(<<WordB, Lit(<<"p","a","c","i","f","i","c">>),
                     WordB>>),
                      TRUE, FALSE),
   replacement |-> Tpl(<<"s","p","e","c","i","f","i","c">>)]

\* /\bcalvary\b/gi
calvary_cavalry_correction ==
  [name |-> "calvary_cavalry_correction", category |-> "corrections",
   priority |-> 20,
   pattern |-> RegExp(Cat(<<WordB, Lit(<<"c","a","l","v","a","r","y">>),
                     WordB>>),
                      TRUE, FALSE),
   replacement |-> Tpl(<<"c","a","v","a","l","r","y">>)]

\* /\bcould of\b/gi
could_of_correction ==
  [name |-> "could_of_correction", category |-> "corrections",
   priority |-> 20,
   pattern |-> RegExp(Cat(<<WordB, Lit(<<"c","o","u","l","d"," ","o","f">>),
                     WordB>>),
                      TRUE, FALSE),
   replacement |-> Tpl(<<"c","o","u","l","d"," ","h","a","v","e">>)]

\* /\bshould of\b/gi
should_of_correction ==
  [name |-> "should_of_correction", category |-> "corrections",
   priority |-> 20,
   pattern |-> RegExp(Cat(<<WordB,
                     Lit(<<"s","h","o","u","l","d"," ","o","f">>), WordB>>),
                      TRUE, FALSE),
   replacement |-> Tpl(<<"s","h","o","u","l","d"," ","h","a","v","e">>)]

\* /\bwould of\b/gi
would_of_correction ==
  [name |-> "would_of_correction", category |-> "corrections",
   priority |-> 20,
   pattern |-> RegExp(Cat(<<WordB, Lit(<<"w","o","u","l","d"," ","o","f">>),
                     WordB>>),
                      TRUE, FALSE),
   replacement |-> Tpl(<<"w","o","u","l","d"," ","h","a","v","e">>)]

\* /\bbump hole there has doors\b/gi
clean_nonsense_doors ==
  [name |-> "clean_nonsense_doors", category |-> "corrections",
   priority |-> 20,
   pattern |-> RegExp(Cat(<<WordB,
                     Lit(<<"b","u","m","p"," ","h","o","l","e"," ","t","h","e","r","e"," ","h","a","s"," ","d","o","o","r","s">>),
                     WordB>>),
                      TRUE, FALSE),
   replacement |-> Tpl(<<"b","u","n","c","h"," ","o","f"," ","d","o","o","r","s">>)]

\* /\b(illegible|inaudible|unclear)\b/gi
clean_nonsense_general ==
  [name |-> "clean_nonsense_general", category |-> "formatting",
   priority |-> 25,
   pattern |-> RegExp(Cat(<<WordB, Group(1,
                     Alt(<<Lit(<<"i","l","l","e","g","i","b","l","e">>),
                     Lit(<<"i","n","a","u","d","i","b","l","e">>),
                     Lit(<<"u","n","c","l","e","a","r">>)>>)), WordB>>),
                      TRUE, FALSE),
   replacement |-> Tpl(<<"[","i","n","a","u","d","i","b","l","e","]">>)]

\* /\b(but|and|so|well)\s*-{2,}\s*/gi
interruption_markers ==
  [name |-> "interruption_markers", category |-> "formatting",
   priority |-> 25,
   pattern |-> RegExp(Cat(<<WordB, Group(1, Alt(<<Lit(<<"b","u","t">>),
                     Lit(<<"a","n","d">>), Lit(<<"s","o">>),
                     Lit(<<"w","e","l","l">>)>>)), Star(Space),
                     Rep(Chars({"-"}), 2, -1), Star(Space)>>),
                      TRUE, FALSE),
   replacement |-> Tpl(<<"$1","EMDASH">>)]

\* /-{2,}/g
multiple_dashes ==
  [name |-> "multiple_dashes", category |-> "formatting",
   priority |-> 25,
   pattern |-> RegExp(Rep(Chars({"-"}), 2, -1),
                      FALSE, FALSE),
   replacement |-> Tpl(<<"EMDASH">>)]

\* /\s*,\s*/g
comma_spacing ==
  [name |-> "comma_spacing", category |-> "punctuation",
   priority |-> 30,
   pattern |-> RegExp(Cat(<<Star(Space), Chars({","}), Star(Space)>>),
                      FALSE, FALSE),
   replacement |-> Tpl(<<","," ">>)]

\* /\s*\.\s*/g
period_spacing ==
  [name |-> "period_spacing", category |-> "punctuation",
   priority |-> 30,
   pattern |-> RegExp(Cat(<<Star(Space), Chars({"."}), Star(Space)>>),
                      FALSE, FALSE),
   replacement |-> Tpl(<<"."," ">>)]

\* /\s*\?\s*/g
question_spacing ==
  [name |-> "question_spacing", category |-> "punctuation",
   priority |-> 30,
   pattern |-> RegExp(Cat(<<Star(Space), Chars({"?"}), Star(Space)>>),
                      FALSE, FALSE),
   replacement |-> Tpl(<<"?"," ">>)]

\* /\bcan't\b/gi
cant_contraction ==
  [name |-> "cant_contraction", category |-> "formatting",
   priority |-> 30,
   pattern |-> RegExp(Cat(<<WordB, Lit(<<"c","a","n","'","t">>), WordB>>),
                      TRUE, FALSE),
   replacement |-> Tpl(<<"c","a","n","'","t">>)]

\* /\bwon't\b/gi
wont_contraction ==
  [name |-> "wont_contraction", category |-> "formatting",
   priority |-> 30,
   pattern |-> RegExp(Cat(<<WordB, Lit(<<"w","o","n","'","t">>), WordB>>),
                      TRUE, FALSE),
   replacement |-> Tpl(<<"w","o","n","'","t">>)]

\* /\bdon't\b/gi
dont_contraction ==
  [name |-> "dont_contraction", category |-> "formatting",
   priority |-> 30,
   pattern |-> RegExp(Cat(<<WordB, Lit(<<"d","o","n","'","t">>), WordB>>),
                      TRUE, FALSE),
   replacement |-> Tpl(<<"d","o","n","'","t">>)]

\* /\n{3,}/g
clean_multiple_newlines ==
  [name |-> "clean_multiple_newlines", category |-> "formatting",
   priority |-> 100,
   pattern |-> RegExp(Rep(Chars({"\n"}), 3, -1),
                      FALSE, FALSE),
   replacement |-> Tpl(<<"\n","\n">>)]

\* /[ \t]+$/gm
clean_trailing_spaces ==
  [name |-> "clean_trailing_spaces", category |-> "formatting",
   priority |-> 101,
   pattern |-> RegExp(Cat(<<Plus(Chars({" ", "\t"})), Eol>>),
                      FALSE, TRUE),
   replacement |-> Tpl(<<>>)]

LVMPD_PROCESSING_RULES ==
  <<clean_multiple_newlines_pre, discourse_markers, mmhm_standardization,
    uh_standardization, yeah_standardization, spell_numbers_1_10,
    remove_date_ordinals, time_format, ejaculation_correction,
    pacific_specific_correction, calvary_cavalry_correction,
    could_of_correction, should_of_correction, would_of_correction,
    clean_nonsense_doors, clean_nonsense_general, interruption_markers,
    multiple_dashes, comma_spacing, period_spacing, question_spacing,
    cant_contraction, wont_contraction, dont_contraction,
    clean_multiple_newlines, clean_trailing_spaces>>

NRules == Len(LVMPD_PROCESSING_RULES)

(***************************************************************************)
(* String helpers                                                          *)
(***************************************************************************)
RECURSIVE SplitOn(_, _)
\* String.prototype.split(sep) for a one-character separator
SplitOn(s, sep) ==
  IF \A i \in 1..Len(s) : s[i] # sep THEN <<s>>
  ELSE LET i == CHOOSE i \in 1..Len(s) :
                  s[i] = sep /\ \A j \in 1..(i - 1) : s[j] # sep
       IN  <<Slice(s, 1, i - 1)>> \o SplitOn(Slice(s, i + 1, Len(s)), sep)

RECURSIVE Join(_, _)
\* Array.prototype.join(sep)
Join(parts, sep) ==
  IF parts = <<>> THEN <<>>
  ELSE IF Len(parts) = 1 THEN parts[1]
  ELSE parts[1] \o sep \o Join(Tail(parts), sep)

RECURSIVE TrimStart(_)
TrimStart(s) ==
  IF s # <<>> /\ Head(s) \in SpaceSet THEN TrimStart(Tail(s)) ELSE s

RECURSIVE TrimEnd(_)
TrimEnd(s) ==
  IF s # <<>> /\ s[Len(s)] \in SpaceSet THEN TrimEnd(SubSeq(s, 1, Len(s) - 1)) ELSE s

\* String.prototype.trim
Trim(s) == TrimEnd(TrimStart(s))

\* String.prototype.startsWith
StartsWith(s, prefix) ==
  Len(prefix) <= Len(s) /\ SubSeq(s, 1, Len(prefix)) = prefix

\* String.prototype.includes
Includes(s, sub) ==
  \E i \in 1..(Len(s) - Len(sub) + 1) : SubSeq(s, i, i + Len(sub) - 1) = sub

RECURSIVE SplitReFrom(_, _, _, _)
\* String.prototype.split(re) on a non-empty string: the pattern is tried at
\* each position from q; a match that ends at p (an empty piece boundary) is
\* skipped
SplitReFrom(re, s, p, q) ==
  LET cuts == {j \in q..Len(s) :
                 LET r == MatchAt(re, s, j) IN r # <<>> /\ r[1].pos # p}
  IN  IF cuts = {} THEN <<Slice(s, p, Len(s))>>
      ELSE LET j == CHOOSE j \in cuts : \A k \in cuts : j <= k
               e == MatchAt(re, s, j)[1].pos
           IN  <<Slice(s, p, j - 1)>> \o SplitReFrom(re, s, e, e)

SplitRe(re, s) ==
  IF s = <<>>
  THEN (IF MatchAt(re, s, 1) # <<>> THEN <<>> ELSE <<s>>)
  ELSE SplitReFrom(re, s, 1, 1)

(***************************************************************************)
(* applyLVMPDStructure                                                     *)
(***************************************************************************)
\* /^([A-Z]):(.*)$/
SpeakerLineRe ==
  RegExp(Cat(<<Bol, Group(1, Chars(UpperSet)), Chars({":"}),
               Group(2, Star(AnyChar)), Eol>>), FALSE, FALSE)

\* /[.!?]\s+/: a separator that takes the punctuation with it
SentenceBreakConsumingRe ==
  RegExp(Cat(<<Chars({".", "!", "?"}), Plus(Space)>>), FALSE, FALSE)

\* /(?<=[.!?])\s+/
SentenceBreakRe ==
  RegExp(Cat(<<LookBehind({".", "!", "?"}), Plus(Space)>>), FALSE, FALSE)

\* an indent of 4 spaces
NarrowIndent == <<" ", " ", " ", " ">>

\* the 5 spaces of the template literals of lines 320 and 331
HangingIndent == <<" ", " ", " ", " ", " ">>

RECURSIVE IndentedSentences(_, _)
\* sentences[j..] that are not blank, each behind the hanging indent
IndentedSentences(sentences, j) ==
  IF j > Len(sentences) THEN <<>>
  ELSE (IF Trim(sentences[j]) # <<>> THEN <<HangingIndent \o sentences[j]>> ELSE <<>>)
       \o IndentedSentences(sentences, j + 1)

\* a loop that skips no line
SkipsNoLine(trimmedLine) == FALSE

\* if (!trimmedLine) continue: the trimmed line is the empty string
SkipsLine(trimmedLine) == trimmedLine = <<>>

\* one iteration of the loop over lines: acc = [out, previousSpeaker]
StructureLine(acc, line) ==
  LET trimmedLine == Trim(line)
      m == ExecFrom(SpeakerLineRe, trimmedLine, 1)
  IN  IF SkipsLine(trimmedLine) THEN acc
      ELSE IF m # None /\ m.start = 1
      THEN LET speaker == Slice(trimmedLine, m.caps[1][1], m.caps[1][2] - 1)
               rest == Slice(trimmedLine, m.caps[2][1], m.caps[2][2] - 1)
               speakerLabel == speaker \o <<":">>
               blank == IF Len(acc.out) > 0 /\ speaker # acc.previousSpeaker
                        THEN << <<>> >> ELSE <<>>
               sentences == SplitRe(SentenceBreakRe, Trim(rest))
               body == IF Trim(rest) # <<>>
                       THEN <<speakerLabel \o <<" ">> \o sentences[1]>>
                            \o IndentedSentences(sentences, 2)
                       ELSE <<speakerLabel>>
           IN  [out |-> acc.out \o blank \o body, previousSpeaker |-> speaker]
      ELSE IF acc.previousSpeaker # <<>> /\ ~StartsWith(trimmedLine, HangingIndent)
           THEN [acc EXCEPT !.out = @ \o <<HangingIndent \o trimmedLine>>]
           ELSE [acc EXCEPT !.out = @ \o <<trimmedLine>>]

RECURSIVE StructureLoop(_, _, _)
StructureLoop(lines, i, acc) ==
  IF i > Len(lines) THEN acc
  ELSE StructureLoop(lines, i + 1, StructureLine(acc, lines[i]))

applyLVMPDStructure(text) ==
  Join(StructureLoop(SplitOn(text, "\n"), 1,
                     [out |-> <<>>, previousSpeaker |-> <<>>]).out, <<"\n">>)

(***************************************************************************)
(* processTranscriptContent                                                *)
(***************************************************************************)
VARIABLES
  content,           \* the argument of processTranscriptContent
  processedContent,  \* its local processedContent
  appliedRules,      \* its local appliedRules: <<[rule, matches], ...>>
  ruleIdx,           \* how many entries of sortedRules the for loop has visited
  pc                 \* "rules" (in the loop), "done" (returned), "idle"

procVars == <<content, processedContent, appliedRules, ruleIdx, pc>>

\* r goes in front of the first of the entries at the indexes later, behind
\* all entries when there is none
InsertBefore(sorted, r, later) ==
  LET at == IF later = {} THEN Len(sorted) + 1
            ELSE CHOOSE k \in later : \A j \in later : k <= j
  IN  SubSeq(sorted, 1, at - 1) \o <<r>> \o SubSeq(sorted, at, Len(sorted))

\* an unstable sort: r goes in front of the entries of equal priority
InsertSortedUnstable(sorted, r) ==
  InsertBefore(sorted, r,
    {k \in 1..Len(sorted) : ~(sorted[k].priority - r.priority < 0)})

\* insert r behind every entry whose priority is not greater (stable)
InsertSorted(sorted, r) ==
  InsertBefore(sorted, r,
    {k \in 1..Len(sorted) : ~(sorted[k].priority - r.priority <= 0)})

RECURSIVE SortFrom(_, _, _)
SortFrom(rules, i, sorted) ==
  IF i > Len(rules) THEN sorted
  ELSE LET inserted == InsertSorted(sorted, rules[i])
       IN  IF inserted = <<>> THEN inserted
           ELSE SortFrom(rules, i + 1, inserted)

\* [...LVMPD_PROCESSING_RULES].sort((a, b) => a.priority - b.priority);
\* Array.prototype.sort is stable (ECMAScript 2019)
sortedRules == SortFrom(LVMPD_PROCESSING_RULES, 1, <<>>)

\* processedContent.match(rule.pattern) || []).length
CountMatches(rule, text) == Len(MatchAll(rule.pattern, text))

\* processedContent.replace(rule.pattern, rule.replacement)
ApplyReplacement(rule, text) == Replace(rule.pattern, text, rule.replacement)

\* a loop that matches every rule against the original input
RuleInputOriginal == content

\* the text the pattern of the rule is matched against and replaced in
RuleInput == processedContent

\* a ledger that enters every rule that matched
RecordedOnMatch(matches, beforeContent, afterContent) == matches > 0

\* whether the rule is entered in appliedRules
Recorded(matches, beforeContent, afterContent) ==
  matches > 0 /\ beforeContent # afterContent

\* one iteration of the loop over sortedRules
ApplyRule ==
  /\ pc = "rules"
  /\ ruleIdx < Len(sortedRules)
  /\ LET rule == sortedRules[ruleIdx + 1]
         matches == CountMatches(rule, RuleInput)
         beforeContent == RuleInput
         afterContent == IF matches > 0 THEN ApplyReplacement(rule, RuleInput)
                         ELSE processedContent
     IN  /\ processedContent' = afterContent
         /\ appliedRules' =
              IF Recorded(matches, beforeContent, afterContent)
              THEN Append(appliedRules, [rule |-> rule.name, matches |-> matches])
              ELSE appliedRules
  /\ ruleIdx' = ruleIdx + 1
  /\ UNCHANGED <<content, pc>>

\* the post-processing step and the return
ApplyStructure ==
  /\ pc = "rules"
  /\ ruleIdx = Len(sortedRules)
  /\ processedContent' = applyLVMPDStructure(processedContent)
  /\ pc' = "done"
  /\ UNCHANGED <<content, appliedRules, ruleIdx>>

(***************************************************************************)
(* Inputs of processTranscriptContent: texts made of at most MaxFrags      *)
(* fragments, and the example line of the specification                    *)
(***************************************************************************)
MaxFrags == 3

ProcFragments ==
  { <<"Q", ":", " ">>, <<"\n">>, <<" ">>, <<"M", "h">>, <<"2", "n", "d">>,
    <<"3", ":", "0", "0", "p", "m">>, <<",">>, <<".">> }

RECURSIVE TextsOf(_, _)
\* the concatenations of at most n fragments
TextsOf(frags, n) ==
  IF n = 0 THEN {<<>>}
  ELSE LET shorter == TextsOf(frags, n - 1)
       IN  shorter \cup {t \o f : t \in shorter, f \in frags}

\* "Q: Mh, I was there at 3:00pm on the 2nd."
ExampleLine ==
  <<"Q",":"," ","M","h",","," ","I"," ","w","a","s"," ","t","h","e","r","e"," ","a","t"," ","3",":","0","0","p","m"," ","o","n"," ","t","h","e"," ","2","n","d",".">>

\* a clock time: hour, ":", minutes, white space, marker
ClockText(hour, minutes, space, marker) ==
  hour \o <<":">> \o minutes \o space \o marker

\* the hours 1 to 12
ClockHours ==
  {<<"1">>, <<"2">>, <<"3">>, <<"4">>, <<"5">>, <<"6">>, <<"7">>, <<"8">>,
   <<"9">>, <<"1", "0">>, <<"1", "1">>, <<"1", "2">>}

ClockMinutes == {<<"0", "0">>, <<"3", "0">>}
ClockSpaces == {<<>>, <<" ">>, <<" ", " ">>}
ClockMarkers == {<<"a", "m">>, <<"p", "m">>}

\* the clock times of every hour from 1 to 12
TimeInputs ==
  {ClockText(h, mm, sp, mk) :
     h \in ClockHours, mm \in ClockMinutes, sp \in ClockSpaces,
     mk \in ClockMarkers}

NumberTokens ==
  {<<"1">>, <<"3">>, <<"9">>, <<"1", "0">>, <<"1", "1">>, <<"2", "5">>,
   <<"1", "0", "0">>, <<"0", "5">>}

\* "saw N men", "N", "aN", "N,N" for the number tokens N
NumberInputs ==
  {<<"s", "a", "w", " ">> \o n \o <<" ", "m", "e", "n">> : n \in NumberTokens}
    \cup NumberTokens
    \cup {<<"a">> \o n : n \in NumberTokens}
    \cup {n \o <<",">> \o m : n, m \in NumberTokens}

\* two speaker turns, the first ending in "," "." "?" or a letter
TurnInputs ==
  {<<"Q", ":", " ", "a">> \o e \o <<"\n", "A", ":", " ", "b">> :
     e \in {<<",">>, <<".">>, <<"?">>, <<>>}}

ProcInputs ==
  TextsOf(ProcFragments, MaxFrags) \cup {ExampleLine} \cup TimeInputs
    \cup NumberInputs \cup TurnInputs

ProcInit ==
  /\ content \in ProcInputs
  /\ processedContent = content
  /\ appliedRules = <<>>
  /\ ruleIdx = 0
  /\ pc = "rules"

ProcIdle ==
  /\ content = <<>>
  /\ processedContent = <<>>
  /\ appliedRules = <<>>
  /\ ruleIdx = 0
  /\ pc = "idle"

(***************************************************************************)
(* The structural cleanup rules on their own: clean_multiple_newlines      *)
(* (priority 100) and clean_trailing_spaces (priority 101), applied in     *)
(* priority order as the final cleanup pass, once and then a second time   *)
(***************************************************************************)
VARIABLES
  cleanupText,   \* the text the passes have produced so far
  cleanupPass    \* the number of cleanup passes made

cleanupVars == <<cleanupText, cleanupPass>>

MaxCleanupLen == 5

CleanupAlphabet == {"\n", " ", "\t", "a"}

RECURSIVE StringsOver(_, _)
\* the strings over an alphabet of length at most n
StringsOver(alphabet, n) ==
  IF n = 0 THEN {<<>>}
  ELSE LET shorter == StringsOver(alphabet, n - 1)
       IN  shorter \cup {Append(t, c) : t \in shorter, c \in alphabet}

\* the two final cleanup rules, in the order the loop applies them
StructuralCleanup(text) ==
  ApplyReplacement(clean_trailing_spaces,
                   ApplyReplacement(clean_multiple_newlines, text))

CleanupPass ==
  /\ cleanupPass < 2
  /\ cleanupText' = StructuralCleanup(cleanupText)
  /\ cleanupPass' = cleanupPass + 1

CleanupInit ==
  /\ cleanupText \in StringsOver(CleanupAlphabet, MaxCleanupLen)
  /\ cleanupPass = 0

CleanupIdle ==
  /\ cleanupText = <<>>
  /\ cleanupPass = 2

(***************************************************************************)
(* validateTranscript (validation-rules.ts)                                *)
(***************************************************************************)
VARIABLES
  vContent,   \* the argument content of validateTranscript
  speakers,   \* the argument speakers: the labels of the speaker records
  issues,     \* its local issues
  lineIdx,    \* how many lines lines.forEach has visited
  score,      \* the score returned (-1 before it is computed)
  vpc         \* "lines", "footer", "score", "done" (returned), "idle"

valVars == <<vContent, speakers, issues, lineIdx, score, vpc>>

LabelChars == UpperSet \cup DigitSet

\* /^[A-Z0-9]+:|The following|THIS STATEMENT/
SpeakerOrSentinelRe ==
  RegExp(Alt(<<Cat(<<Bol, Plus(Chars(LabelChars)), Chars({":"})>>),
               Lit(<<"T","h","e"," ","f","o","l","l","o","w","i","n","g">>),
               Lit(<<"T","H","I","S"," ","S","T","A","T","E","M","E","N","T">>)>>),
         FALSE, FALSE)

\* /\bMh\b/ (also with g, in the suggestion)
MhRe == RegExp(Cat(<<WordB, Lit(<<"M","h">>), WordB>>), FALSE, FALSE)

\* /\bMh-Mh\b/
MhMhRe == RegExp(Cat(<<WordB, Lit(<<"M","h","-","M","h">>), WordB>>), FALSE, FALSE)

\* /\b[1-9]|10\b/g
NumberRe ==
  RegExp(Alt(<<Cat(<<WordB, Chars(DigitSet \ {"0"})>>),
               Cat(<<Lit(<<"1","0">>), WordB>>)>>), FALSE, FALSE)

AmPm == Group(1, Alt(<<Lit(<<"a","m">>), Lit(<<"p","m">>)>>))

\* /\d+:\d+\s*(am|pm)/i
TimeRe ==
  RegExp(Cat(<<Plus(Digit), Chars({":"}), Plus(Digit), Star(Space), AmPm>>),
         TRUE, FALSE)

\* /\d+:\d+\s+(am|pm)/i
TimeSpacedRe ==
  RegExp(Cat(<<Plus(Digit), Chars({":"}), Plus(Digit), Plus(Space), AmPm>>),
         TRUE, FALSE)

\* /\d+(st|nd|rd|th)/ and, in the suggestion, /(\d+)(st|nd|rd|th)/g
OrdinalRe ==
  RegExp(Cat(<<Group(1, Plus(Digit)),
               Group(2, Alt(<<Lit(<<"s","t">>), Lit(<<"n","d">>),
                              Lit(<<"r","d">>), Lit(<<"t","h">>)>>))>>),
         FALSE, FALSE)

\* /^[A-Z0-9]+:/
LabelRe ==
  RegExp(Cat(<<Bol, Plus(Chars(LabelChars)), Chars({":"})>>), FALSE, FALSE)

\* /[.!?]$/
EndPunctuationRe == RegExp(Cat(<<Chars({".", "!", "?"}), Eol>>), FALSE, FALSE)

\* a pattern that asks for white space after the label: /^([A-Z0-9]+:)\s+([a-z])/
LowercaseAfterSpaceRe ==
  RegExp(Cat(<<Bol, Group(1, Cat(<<Plus(Chars(LabelChars)), Chars({":"})>>)),
               Plus(Space), Group(2, Chars(LowerSet))>>), FALSE, FALSE)

\* /^([A-Z0-9]+:)\s*([a-z])/
LowercaseAfterLabelRe ==
  RegExp(Cat(<<Bol, Group(1, Cat(<<Plus(Chars(LabelChars)), Chars({":"})>>)),
               Star(Space), Group(2, Chars(LowerSet))>>), FALSE, FALSE)

HeaderMarker ==
  <<"T","h","e"," ","f","o","l","l","o","w","i","n","g"," ","i","s"," ","t","h","e"," ","t","r","a","n","s","c","r","i","p","t","i","o","n"," ","o","f"," ","a"," ","t","a","p","e","-","r","e","c","o","r","d","e","d"," ","i","n","t","e","r","v","i","e","w">>

FooterMarker ==
  <<"T","H","I","S"," ","S","T","A","T","E","M","E","N","T"," ","W","A","S"," ","C","O","M","P","L","E","T","E","D"," ","A","T">>

\* const lines = content.split('\n')
LinesOf(text) == SplitOn(text, "\n")

\* speakers.some(speaker => line.startsWith(speaker.label))
HasSpeakerLabel(line, spk) == \E k \in 1..Len(spk) : StartsWith(line, spk[k])

Issue(lineNumber, type, severity) ==
  [line |-> lineNumber, type |-> type, severity |-> severity]

IssueWith(lineNumber, type, severity, suggestion) ==
  [line |-> lineNumber, type |-> type, severity |-> severity,
   suggestion |-> suggestion]

SpeakerIdentificationCheck(line, lineNumber, spk) ==
  IF /\ Trim(line) # <<>>
     /\ ~Test(SpeakerOrSentinelRe, line)
     /\ ~HasSpeakerLabel(line, spk)
     /\ Len(Trim(line)) > 0
  THEN <<Issue(lineNumber, "speaker_identification", "warning")>> ELSE <<>>

DiscourseMarkerCheck(line, lineNumber) ==
  IF Test(MhRe, line) /\ ~Test(MhMhRe, line)
  THEN <<IssueWith(lineNumber, "discourse_marker", "info",
                   Replace(MhRe, line, Tpl(<<"M","h","-","M","h">>)))>>
  ELSE <<>>

NumberFormatCheck(line, lineNumber) ==
  IF MatchAll(NumberRe, line) # <<>>
  THEN <<Issue(lineNumber, "number_format", "info")>> ELSE <<>>

TimeFormatCheck(line, lineNumber) ==
  IF Test(TimeRe, line) /\ ~Test(TimeSpacedRe, line)
  THEN <<Issue(lineNumber, "time_format", "warning")>> ELSE <<>>

DateFormatCheck(line, lineNumber) ==
  IF Test(OrdinalRe, line)
  THEN <<IssueWith(lineNumber, "date_format", "info",
                   Replace(OrdinalRe, line, Tpl(<<"$1">>)))>>
  ELSE <<>>

PunctuationCheck(line, lineNumber) ==
  IF Test(LabelRe, line) /\ Len(line) > 10 /\ ~Test(EndPunctuationRe, line)
  THEN <<Issue(lineNumber, "punctuation", "warning")>> ELSE <<>>

\* line.replace(speakerMatch[0], `${speakerMatch[1]} ${speakerMatch[2].toUpperCase()}`):
\* the match starts the line, so its first occurrence is the match itself
CapitalizationCheck(line, lineNumber) ==
  LET m == ExecFrom(LowercaseAfterLabelRe, line, 1)
  IN  IF m # None
      THEN <<IssueWith(lineNumber, "capitalization", "warning",
                       Slice(line, m.caps[1][1], m.caps[1][2] - 1) \o <<" ">>
                       \o MapChars(Slice(line, m.caps[2][1], m.caps[2][2] - 1), TRUE)
                       \o Slice(line, m.end, Len(line)))>>
      ELSE <<>>

\* the issues the body of lines.forEach pushes for one line, in order
LineIssues(line, lineNumber, spk) ==
  SpeakerIdentificationCheck(line, lineNumber, spk)
    \o DiscourseMarkerCheck(line, lineNumber)
    \o NumberFormatCheck(line, lineNumber)
    \o TimeFormatCheck(line, lineNumber)
    \o DateFormatCheck(line, lineNumber)
    \o PunctuationCheck(line, lineNumber)
    \o CapitalizationCheck(line, lineNumber)

\* the 0-based index taken for the line number
ZeroBasedLineNumber(visited) == visited

\* const lineNumber = index + 1 (index is 0-based, lineIdx counts the visits)
LineNumber(visited) == visited + 1

ValidateLine ==
  /\ vpc = "lines"
  /\ lineIdx < Len(LinesOf(vContent))
  /\ issues' = issues \o LineIssues(LinesOf(vContent)[lineIdx + 1],
                                    LineNumber(lineIdx), speakers)
  /\ lineIdx' = lineIdx + 1
  /\ UNCHANGED <<vContent, speakers, score, vpc>>

\* a header looked for at the start of the text only
hasHeaderAtStart(text) == StartsWith(text, HeaderMarker)

hasHeader(text) == Includes(text, HeaderMarker)

hasFooter(text) == Includes(text, FooterMarker)

CheckHeader ==
  /\ vpc = "lines"
  /\ lineIdx = Len(LinesOf(vContent))
  /\ issues' = IF ~hasHeader(vContent)
               THEN Append(issues, Issue(1, "header", "error")) ELSE issues
  /\ vpc' = "footer"
  /\ UNCHANGED <<vContent, speakers, lineIdx, score>>

\* line: lines.length
FooterLine(text) == Len(LinesOf(text))

CheckFooter ==
  /\ vpc = "footer"
  /\ issues' = IF ~hasFooter(vContent)
               THEN Append(issues, Issue(FooterLine(vContent), "footer", "error"))
               ELSE issues
  /\ vpc' = "score"
  /\ UNCHANGED <<vContent, speakers, lineIdx, score>>

\* issues.filter(i => i.severity === severity).length
CountSeverity(iss, severity) ==
  Cardinality({k \in 1..Len(iss) : iss[k].severity = severity})

Max(a, b) == IF a >= b THEN a ELSE b

\* a score that is not clamped at 0
ScoreUnclamped(iss) ==
  100 - (CountSeverity(iss, "error") * 15)
      - (CountSeverity(iss, "warning") * 8)
      - (CountSeverity(iss, "info") * 3)

\* Math.round(Math.max(0, 100 - errorCount * 15 - warningCount * 8 - infoCount * 3)):
\* the argument is an integer, which Math.round returns unchanged
ScoreOf(iss) ==
  Max(0, 100 - (CountSeverity(iss, "error") * 15)
             - (CountSeverity(iss, "warning") * 8)
             - (CountSeverity(iss, "info") * 3))

ComputeScore ==
  /\ vpc = "score"
  /\ score' = ScoreOf(issues)
  /\ vpc' = "done"
  /\ UNCHANGED <<vContent, speakers, issues, lineIdx>>

(***************************************************************************)
(* Inputs of validateTranscript: texts of at most MaxLines lines of a      *)
(* vocabulary, with no speakers or the standard pair Q: / A:               *)
(***************************************************************************)
MaxLines == 3

ValLines ==
  { <<>>,
    HeaderMarker,
    FooterMarker,
    \* "A: Yes."
    <<"A",":"," ","Y","e","s",".">>,
    \* "Q: hello there"
    <<"Q",":"," ","h","e","l","l","o"," ","t","h","e","r","e">>,
    \* "Q: at 3:00pm 2nd Mh"
    <<"Q",":"," ","a","t"," ","3",":","0","0","p","m"," ","2","n","d"," ","M","h">>,
    \* "see 25 men"
    <<"s","e","e"," ","2","5"," ","m","e","n">> }

RECURSIVE TextsOfLines(_, _)
\* the texts of 1 to n lines
TextsOfLines(lineSet, n) ==
  IF n = 1 THEN lineSet
  ELSE LET shorter == TextsOfLines(lineSet, n - 1)
       IN  shorter \cup {t \o <<"\n">> \o l : t \in shorter, l \in lineSet}

\* further lines, validated alone and in pairs
ExtraLines ==
  { \* "A: Yes."
    <<"A",":"," ","Y","e","s",".">>,
    \* "Q:hello there"
    <<"Q",":","h","e","l","l","o"," ","t","h","e","r","e">>,
    \* "Q: hi"
    <<"Q",":"," ","h","i">>,
    \* "MAN: I saw 10."
    <<"M","A","N",":"," ","I"," ","s","a","w"," ","1","0",".">>,
    \* "Mh-Mh, Mh"
    <<"M","h","-","M","h",","," ","M","h">>,
    \* " \t"
    <<" ", "\t">> }

StandardSpeakers == << <<"Q", ":">>, <<"A", ":">> >>

ValInputs == TextsOfLines(ValLines, MaxLines) \cup TextsOfLines(ExtraLines, 2)

ValInit ==
  /\ vContent \in ValInputs
  /\ speakers \in {<<>>, StandardSpeakers}
  /\ issues = <<>>
  /\ lineIdx = 0
  /\ score = -1
  /\ vpc = "lines"

ValIdle ==
  /\ vContent = <<>>
  /\ speakers = <<>>
  /\ issues = <<>>
  /\ lineIdx = 0
  /\ score = -1
  /\ vpc = "idle"

(***************************************************************************)
(* generateLVMPDHeader (transcript-processor.ts)                           *)
(*                                                                         *)
(* A metadata field is undefined or a string; detectiveInfo and            *)
(* interviewInfo are objects or undefined. The interview date is what an   *)
(* <input type="date"> yields: "YYYY-MM-DD" (or anything else, which does  *)
(* not parse). new Date("YYYY-MM-DD") is midnight UTC of that day, and     *)
(* getMonth, getDate and getFullYear read it in the host's local time.     *)
(***************************************************************************)
VARIABLES
  detectiveInfo,  \* argument: undefined, or {name, badge, section}
  interviewInfo,  \* argument: undefined, or {date, time, location}
  tzOffset,       \* the host's local time minus UTC, in minutes
  header,         \* the string returned
  hpc             \* "call", "done" (returned), "idle"

hdrVars == <<detectiveInfo, interviewInfo, tzOffset, header, hpc>>

Undefined == [defined |-> FALSE, str |-> <<>>]
Str(s) == [defined |-> TRUE, str |-> s]
NoObject == [object |-> FALSE]

\* obj?.field
Field(obj, field) == IF obj.object THEN obj[field] ELSE Undefined

\* !value is false: a string that is not empty
Truthy(v) == v.defined /\ v.str # <<>>

\* ${value} in a template literal
TemplateValue(v) ==
  IF v.defined THEN v.str ELSE <<"u","n","d","e","f","i","n","e","d">>

RECURSIVE NumberToString(_)
\* Number.prototype.toString of an integer >= 0
NumberToString(n) ==
  IF n < 10 THEN <<ToString(n)>>
  ELSE NumberToString(n \div 10) \o <<ToString(n % 10)>>

RECURSIVE padStart(_, _, _)
\* String.prototype.padStart(targetLength, padChar)
padStart(s, targetLength, padChar) ==
  IF Len(s) >= targetLength THEN s
  ELSE padStart(<<padChar>> \o s, targetLength, padChar)

\* String.prototype.replace(':', ''): the first colon only
RemoveFirstColon(s) ==
  IF \A k \in 1..Len(s) : s[k] # ":" THEN s
  ELSE LET k == CHOOSE k \in 1..Len(s) :
                  s[k] = ":" /\ \A j \in 1..(k - 1) : s[j] # ":"
       IN  Slice(s, 1, k - 1) \o Slice(s, k + 1, Len(s))

\* the number of days from 1970-01-01 to the civil date y-m-d (MakeDay)
DaysFromCivil(y, m, d) ==
  LET yy == IF m <= 2 THEN y - 1 ELSE y
      era == yy \div 400
      yoe == yy - era * 400
      doy == (153 * (IF m > 2 THEN m - 3 ELSE m + 9) + 2) \div 5 + d - 1
      doe == yoe * 365 + yoe \div 4 - yoe \div 100 + doy
  IN  era * 146097 + doe - 719468

\* the civil date of a day number (YearFromTime, MonthFromTime, DateFromTime)
CivilFromDays(z) ==
  LET zz == z + 719468
      era == zz \div 146097
      doe == zz - era * 146097
      yoe == (doe - doe \div 1460 + doe \div 36524 - doe \div 146096) \div 365
      doy == doe - (365 * yoe + yoe \div 4 - yoe \div 100)
      mp == (5 * doy + 2) \div 153
      d == doy - (153 * mp + 2) \div 5 + 1
      m == IF mp < 10 THEN mp + 3 ELSE mp - 9
  IN  [year |-> yoe + era * 400 + (IF m <= 2 THEN 1 ELSE 0), month |-> m, day |-> d]

IsLeapYear(y) == (y % 4 = 0 /\ y % 100 # 0) \/ y % 400 = 0

DaysInMonth(y, m) ==
  IF m = 2 THEN (IF IsLeapYear(y) THEN 29 ELSE 28)
  ELSE IF m \in {4, 6, 9, 11} THEN 30 ELSE 31

\* the date-only form YYYY-MM-DD of the date time string format
IsoDateRe ==
  RegExp(Cat(<<Bol, Group(1, Rep(Digit, 4, 4)), Chars({"-"}),
               Group(2, Rep(Digit, 2, 2)), Chars({"-"}),
               Group(3, Rep(Digit, 2, 2)), Eol>>), FALSE, FALSE)

MinutesPerDay == 1440

\* new Date(string): the time value in minutes since the epoch, UTC; a
\* date-only string is midnight UTC; what does not parse is an Invalid Date
NewDate(str) ==
  LET m == ExecFrom(IsoDateRe, str, 1)
      y == parseInt(SubSeq(str, 1, 4))
      mo == parseInt(SubSeq(str, 6, 7))
      d == parseInt(SubSeq(str, 9, 10))
  IN  IF m # None /\ mo \in 1..12 /\ d \in 1..DaysInMonth(y, mo)
      THEN [valid |-> TRUE, time |-> DaysFromCivil(y, mo, d) * MinutesPerDay]
      ELSE [valid |-> FALSE, time |-> 0]

\* the local civil date of a valid Date on a host tz minutes ahead of UTC
LocalDate(date, tz) == CivilFromDays((date.time + tz) \div MinutesPerDay)

NaN == <<"N", "a", "N">>

\* `${(date.getMonth() + 1).toString().padStart(2, '0')}/${date.getDate()
\*    .toString().padStart(2, '0')}/${date.getFullYear()}`
formattedDate(date, tz) ==
  IF date.valid
  THEN LET local == LocalDate(date, tz)
       IN  padStart(NumberToString(local.month), 2, "0") \o <<"/">>
           \o padStart(NumberToString(local.day), 2, "0") \o <<"/">>
           \o NumberToString(local.year)
  ELSE padStart(NaN, 2, "0") \o <<"/">> \o padStart(NaN, 2, "0") \o <<"/">> \o NaN

\* a guard that forgets the section
HeaderFieldsPresentNoSection(dInfo, iInfo) ==
  /\ Truthy(Field(dInfo, "name"))
  /\ Truthy(Field(dInfo, "badge"))
  /\ Truthy(Field(iInfo, "date"))
  /\ Truthy(Field(iInfo, "time"))

\* the negation of the guard of generateLVMPDHeader
HeaderFieldsPresent(dInfo, iInfo) ==
  /\ Truthy(Field(dInfo, "name"))
  /\ Truthy(Field(dInfo, "badge"))
  /\ Truthy(Field(dInfo, "section"))
  /\ Truthy(Field(iInfo, "date"))
  /\ Truthy(Field(iInfo, "time"))

HeaderConductedBy ==
  HeaderMarker \o <<" ","c","o","n","d","u","c","t","e","d"," ","b","y"," ","D","E","T","E","C","T","I","V","E"," ">>

generateLVMPDHeader(dInfo, iInfo, tz) ==
  IF ~HeaderFieldsPresent(dInfo, iInfo) THEN <<>>
  ELSE LET date == NewDate(Field(iInfo, "date").str)
           time24 == RemoveFirstColon(Field(iInfo, "time").str)
       IN  HeaderConductedBy \o TemplateValue(Field(dInfo, "name"))
           \o <<",", " ", "P", "#", " ">> \o TemplateValue(Field(dInfo, "badge"))
           \o <<",", " ", "L", "V", "M", "P", "D", " ">>
           \o TemplateValue(Field(dInfo, "section"))
           \o <<" ", "D", "e", "t", "a", "i", "l", ",", " ", "o", "n", " ">>
           \o formattedDate(date, tz)
           \o <<" ", "a", "t", " ">> \o time24
           \o <<" ", "h", "o", "u", "r", "s", ".", "\n", "\n">>

GenerateHeader ==
  /\ hpc = "call"
  /\ header' = generateLVMPDHeader(detectiveInfo, interviewInfo, tzOffset)
  /\ hpc' = "done"
  /\ UNCHANGED <<detectiveInfo, interviewInfo, tzOffset>>

(***************************************************************************)
(* Inputs of generateLVMPDHeader                                           *)
(***************************************************************************)
NameValues == {Undefined, Str(<<>>), Str(<<"J","."," ","S","M","I","T","H">>)}
BadgeValues == {Undefined, Str(<<>>), Str(<<"1","2","3","4">>)}
SectionValues == {Undefined, Str(<<>>), Str(<<"H","o","m","i","c","i","d","e">>)}
DateValues ==
  {Undefined, Str(<<>>),
   Str(<<"2","0","2","4","-","0","3","-","1","5">>),
   Str(<<"2","0","2","4","-","0","3","-","0","1">>),
   Str(<<"2","0","2","3","-","0","1","-","0","1">>),
   Str(<<"s","o","o","n">>)}
TimeValues == {Undefined, Str(<<>>), Str(<<"1","4",":","3","0">>), Str(<<"0","9",":","0","5">>)}
LocationValues == {Undefined, Str(<<"m","e","t","r","o"," ","h","q">>)}

DetectiveInfos ==
  {NoObject} \cup
  {[object |-> TRUE, name |-> n, badge |-> b, section |-> s] :
     n \in NameValues, b \in BadgeValues, s \in SectionValues}

InterviewInfos ==
  {NoObject} \cup
  {[object |-> TRUE, date |-> d, time |-> tm, location |-> l] :
     d \in DateValues, tm \in TimeValues, l \in LocationValues}

\* hosts at UTC-8 (Las Vegas, standard time), UTC and UTC+5:30
HostOffsets == {-480, 0, 330}

HdrInit ==
  /\ detectiveInfo \in DetectiveInfos
  /\ interviewInfo \in InterviewInfos
  /\ tzOffset \in HostOffsets
  /\ header = <<>>
  /\ hpc = "call"

HdrIdle ==
  /\ detectiveInfo = NoObject
  /\ interviewInfo = NoObject
  /\ tzOffset = 0
  /\ header = <<>>
  /\ hpc = "idle"

(***************************************************************************)
(* generateLVMPDFooter                                                     *)
(***************************************************************************)
VARIABLES
  footerInfo,   \* argument interviewInfo: undefined, or {date, time, location}
  footerTz,     \* the host's local time minus UTC, in minutes
  footer,       \* the string returned
  fpc           \* "call", "done" (returned), "idle"

ftrVars == <<footerInfo, footerTz, footer, fpc>>

dayNames ==
  << <<"F","I","R","S","T">>,
     <<"S","E","C","O","N","D">>,
     <<"T","H","I","R","D">>,
     <<"F","O","U","R","T","H">>,
     <<"F","I","F","T","H">>,
     <<"S","I","X","T","H">>,
     <<"S","E","V","E","N","T","H">>,
     <<"E","I","G","H","T","H">>,
     <<"N","I","N","T","H">>,
     <<"T","E","N","T","H">>,
     <<"E","L","E","V","E","N","T","H">>,
     <<"T","W","E","L","F","T","H">>,
     <<"T","H","I","R","T","E","E","N","T","H">>,
     <<"F","O","U","R","T","E","E","N","T","H">>,
     <<"F","I","F","T","E","E","N","T","H">>,
     <<"S","I","X","T","E","E","N","T","H">>,
     <<"S","E","V","E","N","T","E","E","N","T","H">>,
     <<"E","I","G","H","T","E","E","N","T","H">>,
     <<"N","I","N","E","T","E","E","N","T","H">>,
     <<"T","W","E","N","T","I","E","T","H">>,
     <<"T","W","E","N","T","Y","-","F","I","R","S","T">>,
     <<"T","W","E","N","T","Y","-","S","E","C","O","N","D">>,
     <<"T","W","E","N","T","Y","-","T","H","I","R","D">>,
     <<"T","W","E","N","T","Y","-","F","O","U","R","T","H">>,
     <<"T","W","E","N","T","Y","-","F","I","F","T","H">>,
     <<"T","W","E","N","T","Y","-","S","I","X","T","H">>,
     <<"T","W","E","N","T","Y","-","S","E","V","E","N","T","H">>,
     <<"T","W","E","N","T","Y","-","E","I","G","H","T","H">>,
     <<"T","W","E","N","T","Y","-","N","I","N","T","H">>,
     <<"T","H","I","R","T","I","E","T","H">>,
     <<"T","H","I","R","T","Y","-","F","I","R","S","T">> >>

monthNames ==
  << <<"J","A","N","U","A","R","Y">>,
     <<"F","E","B","R","U","A","R","Y">>,
     <<"M","A","R","C","H">>,
     <<"A","P","R","I","L">>,
     <<"M","A","Y">>,
     <<"J","U","N","E">>,
     <<"J","U","L","Y">>,
     <<"A","U","G","U","S","T">>,
     <<"S","E","P","T","E","M","B","E","R">>,
     <<"O","C","T","O","B","E","R">>,
     <<"N","O","V","E","M","B","E","R">>,
     <<"D","E","C","E","M","B","E","R">> >>

\* the value an array read out of range or a missing value renders as
UndefinedText == <<"u","n","d","e","f","i","n","e","d">>

\* a guard that forgets the location
FooterFieldsPresentNoLocation(iInfo) ==
  /\ Truthy(Field(iInfo, "date"))
  /\ Truthy(Field(iInfo, "time"))

\* the negation of the guard of generateLVMPDFooter
FooterFieldsPresent(iInfo) ==
  /\ Truthy(Field(iInfo, "date"))
  /\ Truthy(Field(iInfo, "time"))
  /\ Truthy(Field(iInfo, "location"))

\* dayNames[date.getDate() - 1], in the host's local time
FooterDay(date, tz) ==
  IF date.valid THEN dayNames[LocalDate(date, tz).day] ELSE UndefinedText

\* monthNames[date.getMonth()], in the host's local time
FooterMonth(date, tz) ==
  IF date.valid THEN monthNames[LocalDate(date, tz).month] ELSE UndefinedText

\* date.getFullYear(), in the host's local time
FooterYear(date, tz) ==
  IF date.valid THEN NumberToString(LocalDate(date, tz).year) ELSE NaN

generateLVMPDFooter(iInfo, tz) ==
  IF ~FooterFieldsPresent(iInfo) THEN <<>>
  ELSE LET date == NewDate(Field(iInfo, "date").str)
           time24 == RemoveFirstColon(Field(iInfo, "time").str)
       IN  <<"\n", "\n">> \o FooterMarker \o <<" ">>
           \o MapChars(Field(iInfo, "location").str, TRUE)
           \o <<" ","O","N"," ","T","H","E"," ">> \o FooterDay(date, tz)
           \o <<" ","D","A","Y"," ","O","F"," ">> \o FooterMonth(date, tz)
           \o <<",", " ">> \o FooterYear(date, tz)
           \o <<" ", "A", "T", " ">> \o time24
           \o <<" ","H","O","U","R","S",".">>

GenerateFooter ==
  /\ fpc = "call"
  /\ footer' = generateLVMPDFooter(footerInfo, footerTz)
  /\ fpc' = "done"
  /\ UNCHANGED <<footerInfo, footerTz>>

FooterInfos ==
  {NoObject} \cup
  {[object |-> TRUE, date |-> d, time |-> tm, location |-> l] :
     d \in DateValues, tm \in TimeValues, l \in LocationValues \cup {Str(<<>>)}}

FtrInit ==
  /\ footerInfo \in FooterInfos
  /\ footerTz \in HostOffsets
  /\ footer = <<>>
  /\ fpc = "call"

FtrIdle ==
  /\ footerInfo = NoObject
  /\ footerTz = 0
  /\ footer = <<>>
  /\ fpc = "idle"

(***************************************************************************)
(* The server: POST /api/transcripts/:id/process over the storage          *)
(***************************************************************************)
VARIABLES
  transcripts,  \* the record the storage holds under the id, or NoTranscript
  request,      \* per request of the process route: its position and the
                \* transcript it read on entry
  versionIds    \* how many version ids have been drawn (each draw is fresh)

srvVars == <<transcripts, request, versionIds>>

MaxRequests == 3

Requests == 1..MaxRequests

NoTranscript == [stored |-> FALSE]

\* the fields of the update are laid over those of the stored record; an id
\* the storage does not hold is left alone
updateTranscript(existing, updates) ==
  IF ~existing.stored
    THEN existing
    ELSE [f \in DOMAIN existing |->
            IF f \in DOMAIN updates THEN updates[f] ELSE existing[f]]

originalVersion(n) == [id |-> n, type |-> "original"]

newProcessedVersion(n) == [id |-> n, type |-> "processed"]

\* POST /api/transcripts/upload: the record is created with its first version
UploadTranscript ==
  /\ ~transcripts.stored
  /\ transcripts' = [stored |-> TRUE, status |-> "draft",
                     versions |-> <<originalVersion(versionIds + 1)>>]
  /\ versionIds' = versionIds + 1
  /\ UNCHANGED request

\* the route up to its first await: the transcript is read, or 404 is sent
ProcessGet(r) ==
  /\ request[r].pc = "idle"
  /\ request' = [request EXCEPT ![r] =
                   IF transcripts.stored
                     THEN [pc |-> "got", transcript |-> transcripts]
                     ELSE [pc |-> "notfound", transcript |-> NoTranscript]]
  /\ UNCHANGED <<transcripts, versionIds>>

\* the route without the update of its status to "processing"
ProcessWithoutMark(r) ==
  /\ request[r].pc = "got"
  /\ request' = [request EXCEPT ![r].pc = "marked"]
  /\ UNCHANGED <<transcripts, versionIds>>

\* the status is set to "processing"
ProcessMark(r) ==
  /\ request[r].pc = "got"
  /\ transcripts' = updateTranscript(transcripts, [status |-> "processing"])
  /\ request' = [request EXCEPT ![r].pc = "marked"]
  /\ UNCHANGED versionIds

\* the content is processed and the record is updated with the versions the
\* request read on entry followed by the new one
ProcessSave(r) ==
  /\ request[r].pc = "marked"
  /\ LET existingVersions == request[r].transcript.versions
     IN transcripts' =
          updateTranscript(transcripts,
            [status |-> "ready",
             versions |-> Append(existingVersions,
                                 newProcessedVersion(versionIds + 1))])
  /\ versionIds' = versionIds + 1
  /\ request' = [request EXCEPT ![r].pc = "done"]

\* a storage call is rejected: the catch block sets the status to "error"
ProcessFail(r) ==
  /\ request[r].pc \in {"idle", "got", "marked"}
  /\ transcripts' = updateTranscript(transcripts, [status |-> "error"])
  /\ request' = [request EXCEPT ![r].pc = "failed"]
  /\ UNCHANGED versionIds

SrvInit ==
  /\ transcripts = NoTranscript
  /\ request = [r \in Requests |-> [pc |-> "idle", transcript |-> NoTranscript]]
  /\ versionIds = 0

SrvIdle ==
  /\ transcripts = NoTranscript
  /\ request = [r \in Requests |-> [pc |-> "off", transcript |-> NoTranscript]]
  /\ versionIds = 0

(***************************************************************************)
(* Invocations of processTranscriptContent and validateTranscript in one   *)
(* host, over the state the invocations share: the exported rule table     *)
(* and the lastIndex of the RegExp object of every rule.  Both functions   *)
(* are synchronous: an invocation runs to its return before the next       *)
(* begins.                                                                 *)
(***************************************************************************)
VARIABLES
  rulesTable,   \* the array LVMPD_PROCESSING_RULES: the rule names in order
  lastIndex,    \* rule name -> lastIndex of rule.pattern
  invoked,      \* call -> how many times it has been made
  returned,     \* call -> the results its invocations have returned
  running,      \* the invocation of processTranscriptContent in progress
  locals        \* its locals: sortedRules, processedContent, appliedRules
                \* and how many entries of sortedRules the loop has visited

callVars == <<rulesTable, lastIndex, invoked, returned, running, locals>>

MaxInvocations == 2

RuleNames == {LVMPD_PROCESSING_RULES[k].name : k \in 1..NRules}

RuleNamed(name) ==
  LVMPD_PROCESSING_RULES[CHOOSE k \in 1..NRules :
                           LVMPD_PROCESSING_RULES[k].name = name]

NamesOf(rules) == [k \in 1..Len(rules) |-> rules[k].name]

\* the table as declared, every lastIndex 0
DeclaredTable == NamesOf(LVMPD_PROCESSING_RULES)

InitialLastIndex == [n \in RuleNames |-> 0]

\* [...LVMPD_PROCESSING_RULES].sort((a, b) => a.priority - b.priority)
SortedCopy(table) ==
  SortFrom([k \in 1..Len(table) |-> RuleNamed(table[k])], 1, <<>>)

\* the sort acts on the copy, the table keeps its order
TableAfterSort(table, sorted) == table

\* a single rule.pattern.exec(text) from index 0: with the g flag it leaves
\* lastIndex behind the match it found, or at 0 when it found none
LastIndexAfterExec(rule, text, li) ==
  LET m == ExecFrom(rule.pattern, text, 1)
  IN  [li EXCEPT ![rule.name] = IF m = None THEN 0 ELSE m.end - 1]

\* String.prototype.match and replace with a pattern that has the g flag set
\* its lastIndex to 0 before the first search, so the search starts at 0
\* whatever lastIndex was, and the last, failing search leaves it 0
LastIndexAfter(rule, text, li) == [li EXCEPT ![rule.name] = 0]

NoCall == [fn |-> "none"]

NoLocals == [sortedRules |-> <<>>, processedContent |-> <<>>,
             appliedRules |-> <<>>, visited |-> 0]

RECURSIVE ValidateLines(_, _, _)
\* lines.forEach from the k-th line
ValidateLines(lines, k, spk) ==
  IF k > Len(lines) THEN <<>>
  ELSE LineIssues(lines[k], LineNumber(k - 1), spk)
         \o ValidateLines(lines, k + 1, spk)

\* the issues after the header check and the footer check
WithHeaderAndFooter(text, perLine) ==
  (perLine
     \o (IF ~hasHeader(text) THEN <<Issue(1, "header", "error")>> ELSE <<>>))
     \o (IF ~hasFooter(text)
         THEN <<Issue(FooterLine(text), "footer", "error")>> ELSE <<>>)

ProcessTexts ==
  { \* "Mh"
    <<"M", "h">>,
    \* "3:00pm"
    <<"3", ":", "0", "0", "p", "m">> }

ValidateTexts ==
  { \* "Mh"
    <<"M", "h">>,
    \* "Q: hello there"
    <<"Q",":"," ","h","e","l","l","o"," ","t","h","e","r","e">> }

ProcessCalls ==
  {[fn |-> "processTranscriptContent", content |-> t, speakers |-> <<>>] :
     t \in ProcessTexts}

ValidateCalls ==
  {[fn |-> "validateTranscript", content |-> t, speakers |-> StandardSpeakers] :
     t \in ValidateTexts}

Calls == ProcessCalls \cup ValidateCalls

\* processTranscriptContent is entered: its locals are set and the rules
\* are sorted
CallProcess(c) ==
  /\ running = NoCall
  /\ invoked[c] < MaxInvocations
  /\ running' = c
  /\ invoked' = [invoked EXCEPT ![c] = @ + 1]
  /\ \E sorted \in {NamesOf(SortedCopy(rulesTable))} :
       /\ locals' = [sortedRules |-> sorted, processedContent |-> c.content,
                     appliedRules |-> <<>>, visited |-> 0]
       /\ rulesTable' = TableAfterSort(rulesTable, sorted)
  /\ UNCHANGED <<lastIndex, returned>>

\* one iteration of the loop over sortedRules
CallRule ==
  /\ running # NoCall
  /\ locals.visited < Len(locals.sortedRules)
  /\ \E rule \in {RuleNamed(locals.sortedRules[locals.visited + 1])} :
     \E matches \in {CountMatches(rule, locals.processedContent)} :
     \E afterContent \in
          {IF matches > 0 THEN ApplyReplacement(rule, locals.processedContent)
           ELSE locals.processedContent} :
       /\ locals' =
            [locals EXCEPT
               !.processedContent = afterContent,
               !.appliedRules =
                 IF Recorded(matches, locals.processedContent, afterContent)
                 THEN Append(@, [rule |-> rule.name, matches |-> matches])
                 ELSE @,
               !.visited = @ + 1]
       /\ lastIndex' = LastIndexAfter(rule, locals.processedContent, lastIndex)
  /\ UNCHANGED <<rulesTable, invoked, returned, running>>

\* the post-processing step and the return
CallReturn ==
  /\ running # NoCall
  /\ locals.visited = Len(locals.sortedRules)
  /\ returned' =
       [returned EXCEPT ![running] = @ \cup
          {[processedContent |-> applyLVMPDStructure(locals.processedContent),
            appliedRules |-> locals.appliedRules]}]
  /\ running' = NoCall
  /\ locals' = NoLocals
  /\ UNCHANGED <<rulesTable, lastIndex, invoked>>

\* one invocation of validateTranscript: it reads its arguments, its own
\* locals and the RegExp objects its literals create anew on every evaluation
InvokeValidate(c) ==
  /\ running = NoCall
  /\ invoked[c] < MaxInvocations
  /\ \E perLine \in {ValidateLines(LinesOf(c.content), 1, c.speakers)} :
     \E all \in {WithHeaderAndFooter(c.content, perLine)} :
       returned' = [returned EXCEPT ![c] =
                      @ \cup {[issues |-> all, score |-> ScoreOf(all)]}]
  /\ invoked' = [invoked EXCEPT ![c] = @ + 1]
  /\ UNCHANGED <<rulesTable, lastIndex, running, locals>>

CallInit ==
  /\ rulesTable = DeclaredTable
  /\ lastIndex = InitialLastIndex
  /\ invoked = [c \in Calls |-> 0]
  /\ returned = [c \in Calls |-> {}]
  /\ running = NoCall
  /\ locals = NoLocals

CallIdle ==
  /\ rulesTable = <<>>
  /\ lastIndex = <<>>
  /\ invoked = <<>>
  /\ returned = <<>>
  /\ running = NoCall
  /\ locals = NoLocals

(***************************************************************************)
(* applyLVMPDStructure, one iteration of its loop over the lines at a time *)
(***************************************************************************)
VARIABLES
  structContent,    \* argument content
  structIdx,        \* how many entries of lines the for loop has visited
  processedLines,   \* its local processedLines
  previousSpeaker,  \* its local previousSpeaker
  structured,       \* the string returned
  spc               \* "loop", "done" (returned), "idle"

structVars ==
  <<structContent, structIdx, processedLines, previousSpeaker, structured, spc>>

\* const lines = content.split('\n')
StructLines == SplitOn(structContent, "\n")

\* one iteration of the for loop
StructureStep ==
  /\ spc = "loop"
  /\ structIdx < Len(StructLines)
  /\ \E acc \in {StructureLine([out |-> processedLines,
                                previousSpeaker |-> previousSpeaker],
                               StructLines[structIdx + 1])} :
       /\ processedLines' = acc.out
       /\ previousSpeaker' = acc.previousSpeaker
  /\ structIdx' = structIdx + 1
  /\ UNCHANGED <<structContent, structured, spc>>

\* return processedLines.join('\n')
StructureReturn ==
  /\ spc = "loop"
  /\ structIdx = Len(StructLines)
  /\ structured' = Join(processedLines, <<"\n">>)
  /\ spc' = "done"
  /\ UNCHANGED <<structContent, structIdx, processedLines, previousSpeaker>>

MaxStructLines == 3

StructVocabulary ==
  { <<>>,
    \* "intro"
    <<"i","n","t","r","o">>,
    \* "Q: Hi."
    <<"Q",":"," ","H","i",".">>,
    \* " Q:"
    <<" ","Q",":">>,
    \* "A: Yes. No."
    <<"A",":"," ","Y","e","s","."," ","N","o",".">>,
    \* "q: low"
    <<"q",":"," ","l","o","w">>,
    \* "MAN: Hey"
    <<"M","A","N",":"," ","H","e","y">>,
    \* "A: So.  No!<tab>Why? a.b"
    <<"A",":"," ","S","o","."," "," ","N","o","!","\t","W","h","y","?"," ","a",".","b">>,
    \* "Q: Hi. A: No."
    <<"Q",":"," ","H","i","."," ","A",":"," ","N","o",".">>,
    \* "  and then "
    <<" "," ","a","n","d"," ","t","h","e","n"," ">>,
    \* " <tab>"
    <<" ","\t">> }

StructInit ==
  /\ structContent \in TextsOfLines(StructVocabulary, MaxStructLines)
  /\ structIdx = 0
  /\ processedLines = <<>>
  /\ previousSpeaker = <<>>
  /\ structured = <<>>
  /\ spc = "loop"

StructIdle ==
  /\ structContent = <<>>
  /\ structIdx = 0
  /\ processedLines = <<>>
  /\ previousSpeaker = <<>>
  /\ structured = <<>>
  /\ spc = "idle"

(***************************************************************************)
(* processTranscriptContent invoked a second time, on the text its first   *)
(* invocation returned                                                     *)
(***************************************************************************)
VARIABLES
  run,          \* 1: the first invocation, 2: the one on its output, 0: idle
  firstResult   \* what the first invocation returned

rerunVars == <<run, firstResult>>

NoResult == [processedContent |-> <<>>, appliedRules |-> <<>>]

\* the function is entered again with the text it returned
Rerun ==
  /\ pc = "done"
  /\ run = 1
  /\ firstResult' = [processedContent |-> processedContent,
                     appliedRules |-> appliedRules]
  /\ content' = processedContent
  /\ processedContent' = processedContent
  /\ appliedRules' = <<>>
  /\ ruleIdx' = 0
  /\ pc' = "rules"
  /\ run' = 2

RerunInputs ==
  TextsOf(ProcFragments, MaxFrags - 1)
    \cup { ExampleLine,
           \* "Mh-Mh"
           <<"M","h","-","M","h">>,
           \* "[inaudible]"
           <<"[","i","n","a","u","d","i","b","l","e","]">>,
           \* "It was unclear"
           <<"I","t"," ","w","a","s"," ","u","n","c","l","e","a","r">>,
           \* "Q: Yes\nA: No"
           <<"Q",":"," ","Y","e","s","\n","A",":"," ","N","o">> }

RerunProcInit ==
  /\ content \in RerunInputs
  /\ processedContent = content
  /\ appliedRules = <<>>
  /\ ruleIdx = 0
  /\ pc = "rules"

RerunInit ==
  /\ run = 1
  /\ firstResult = NoResult

RerunIdle ==
  /\ run = 0
  /\ firstResult = NoResult

(***************************************************************************)
(* The assembled document: header + formatted body + footer, validated     *)
(***************************************************************************)
\* metadata with every field the header and the footer read
CompleteDetectiveInfo ==
  [object |-> TRUE, name |-> Str(<<"J","."," ","S","M","I","T","H">>),
   badge |-> Str(<<"1","2","3","4">>),
   section |-> Str(<<"H","o","m","i","c","i","d","e">>)]

CompleteInterviewInfos ==
  {[object |-> TRUE, date |-> d, time |-> tm,
    location |-> Str(<<"m","e","t","r","o"," ","h","q">>)] :
     d \in {Str(<<"2","0","2","4","-","0","3","-","1","5">>),
            Str(<<"2","0","2","3","-","0","1","-","0","1">>)},
     tm \in {Str(<<"1","4",":","3","0">>), Str(<<"0","9",":","0","5">>)}}

\* speaker lines of the configured speakers, capitalized, ending in sentence
\* punctuation, without digits, markers or ordinals
BodyLines ==
  { \* "Q: Hello there."
    <<"Q",":"," ","H","e","l","l","o"," ","t","h","e","r","e",".">>,
    \* "A: Yes."
    <<"A",":"," ","Y","e","s",".">>,
    \* "A: Yes. No way."
    <<"A",":"," ","Y","e","s","."," ","N","o"," ","w","a","y",".">>,
    \* "Q: Why? Tell me."
    <<"Q",":"," ","W","h","y","?"," ","T","e","l","l"," ","m","e",".">> }

MaxBodyLines == 2

DocBodies == TextsOfLines(BodyLines, MaxBodyLines)

\* const finalContent = header + processedContent + footer, with the header
\* and the footer of the generators and the body of the formatter
finalContent(dInfo, iInfo, tz, body) ==
  generateLVMPDHeader(dInfo, iInfo, tz) \o applyLVMPDStructure(body)
    \o generateLVMPDFooter(iInfo, tz)

Documents ==
  {finalContent(CompleteDetectiveInfo, i, tz, b) :
     i \in CompleteInterviewInfos, tz \in HostOffsets, b \in DocBodies}

\* validateTranscript is called on a document with the configured speakers
DocInit ==
  /\ vContent \in Documents
  /\ speakers = StandardSpeakers
  /\ issues = <<>>
  /\ lineIdx = 0
  /\ score = -1
  /\ vpc = "lines"

(***************************************************************************)
(* CollaborationService: the sessions, the sockets of the connections and  *)
(* the messages the handler of the last event sent.  Every handler runs to *)
(* its end before the next event is handled.                               *)
(***************************************************************************)
VARIABLES
  sessions,    \* transcript id -> the session, or NoSession
  readyState,  \* socket -> "open", "closed" (close event pending) or "gone"
  sent         \* the ws.send calls of the last handler, in order

collabVars == <<sessions, readyState, sent>>

MaxOperations == 2

TheTranscript == "t1"
TranscriptIds == {TheTranscript}
UserIds == {"u1", "u2"}
UserNames == {"Ann"}
Sockets == {1, 2}
CursorPositions == {1}

\* message.operation of the edit messages
EditOperations ==
  {[type |-> "insert", position |-> 1, content |-> Str(<<"b">>)],
   [type |-> "delete", position |-> 0, content |-> Undefined],
   [type |-> "delete", position |-> -1, content |-> Str(<<"a", "b">>)],
   [type |-> "cursor", position |-> 0, content |-> Undefined]}

NoSession == [exists |-> FALSE]

\* the session joinSession creates
NewSession(transcriptId) ==
  [exists |-> TRUE, transcriptId |-> transcriptId, users |-> <<>>,
   currentContent |-> <<>>, operations |-> <<>>]

\* an index of String.prototype.slice: negative counts from the end, and the
\* result is clamped to the string
SliceIndex(s, i) ==
  IF i < 0 THEN Max(Len(s) + i, 0) ELSE IF i > Len(s) THEN Len(s) ELSE i

\* s.slice(start, end)
StringSlice(s, start, end) ==
  Slice(s, SliceIndex(s, start) + 1, SliceIndex(s, end))

\* s.slice(start)
StringSliceFrom(s, start) == Slice(s, SliceIndex(s, start) + 1, Len(s))

\* operation.content?.length || 1
DeleteLength(removed) ==
  IF removed.defined /\ Len(removed.str) # 0 THEN Len(removed.str) ELSE 1

\* the content after the operation: lines 108 to 118
ApplyOperation(currentContent, operation) ==
  IF operation.type = "insert"
    THEN StringSlice(currentContent, 0, operation.position)
           \o TemplateValue(operation.content)
           \o StringSliceFrom(currentContent, operation.position)
  ELSE IF operation.type = "delete"
    THEN StringSlice(currentContent, 0, operation.position)
           \o StringSliceFrom(currentContent,
                operation.position + DeleteLength(operation.content))
  ELSE currentContent

\* no excludeUserId is passed
NotExcluded == "undefined"

Send(ws, to, message) == [ws |-> ws, to |-> to, message |-> message]

RECURSIVE BroadcastToAllFrom(_, _, _, _, _)
\* a broadcast that leaves nobody out
BroadcastToAllFrom(users, k, rs, message, excludeUserId) ==
  IF k > Len(users) THEN <<>>
  ELSE (IF rs[users[k].ws] = "open"
        THEN <<Send(users[k].ws, users[k].userId, message)>> ELSE <<>>)
       \o BroadcastToAllFrom(users, k + 1, rs, message, excludeUserId)

RECURSIVE BroadcastFrom(_, _, _, _, _)
\* session.users.forEach from the k-th entry: the message goes to the users
\* other than excludeUserId whose socket is open
BroadcastFrom(users, k, rs, message, excludeUserId) ==
  IF k > Len(users) THEN <<>>
  ELSE (IF users[k].userId # excludeUserId /\ rs[users[k].ws] = "open"
        THEN <<Send(users[k].ws, users[k].userId, message)>> ELSE <<>>)
       \o BroadcastFrom(users, k + 1, rs, message, excludeUserId)

broadcastToSession(session, rs, message, excludeUserId) ==
  IF ~session.exists THEN <<>>
  ELSE BroadcastFrom(session.users, 1, rs, message, excludeUserId)

\* session.users.set(userId, entry): an entry of the key is replaced where it
\* stands, a new key goes to the end
SetUser(users, entry) ==
  IF \E k \in 1..Len(users) : users[k].userId = entry.userId
    THEN [k \in 1..Len(users) |->
            IF users[k].userId = entry.userId THEN entry ELSE users[k]]
    ELSE Append(users, entry)

\* session.users.delete(userId)
DeleteUser(users, userId) ==
  LET kept == {k \in 1..Len(users) : users[k].userId # userId}
  IN  [j \in 1..Cardinality(kept) |->
         users[CHOOSE k \in kept : Cardinality({i \in kept : i < k}) = j - 1]]

\* the users of the init message
UserList(users) ==
  [k \in 1..Len(users) |->
     [userId |-> users[k].userId, name |-> users[k].name,
      cursor |-> users[k].cursor]]

\* joinSession: the session is created when there is none, the user is set,
\* the state is sent to the socket and the others are told
JoinSession(ws, transcriptId, userId, userName) ==
  /\ readyState[ws] = "open"
  /\ LET found == IF sessions[transcriptId].exists
                    THEN sessions[transcriptId]
                    ELSE NewSession(transcriptId)
         session == [found EXCEPT !.users =
                       SetUser(@, [ws |-> ws, userId |-> userId,
                                   name |-> userName, cursor |-> 0])]
     IN  /\ sessions' = [sessions EXCEPT ![transcriptId] = session]
         /\ sent' = <<Send(ws, userId,
                           [type |-> "init",
                            content |-> session.currentContent,
                            users |-> UserList(session.users)])>>
                    \o broadcastToSession(session, readyState,
                         [type |-> "user_joined", userId |-> userId,
                          userName |-> userName], userId)
  /\ UNCHANGED readyState

\* the operation handleEdit builds: the id is fresh; the timestamp, which
\* the service never reads, is left out
NewOperation(session, userId, edit) ==
  [id |-> Len(session.operations) + 1, userId |-> userId,
   type |-> edit.type, position |-> edit.position, content |-> edit.content]

\* handleEdit: without a session nothing happens; otherwise the operation is
\* pushed, applied to the content and sent to the others
HandleEdit(ws, transcriptId, userId, edit) ==
  /\ readyState[ws] = "open"
  /\ LET session == sessions[transcriptId]
         operation == NewOperation(session, userId, edit)
     IN  IF ~session.exists
           THEN /\ sent' = <<>>
                /\ UNCHANGED sessions
           ELSE /\ Len(session.operations) < MaxOperations
                /\ sessions' =
                     [sessions EXCEPT ![transcriptId] =
                        [session EXCEPT
                           !.operations = Append(@, operation),
                           !.currentContent = ApplyOperation(@, operation)]]
                /\ sent' = broadcastToSession(session, readyState,
                             [type |-> "operation", operation |-> operation],
                             userId)
  /\ UNCHANGED readyState

\* handleCursor: the cursor of a user of the session is set and the others
\* are told
HandleCursor(ws, transcriptId, userId, position) ==
  /\ readyState[ws] = "open"
  /\ LET session == sessions[transcriptId]
     IN  IF session.exists
            /\ \E k \in 1..Len(session.users) : session.users[k].userId = userId
           THEN LET users == [k \in 1..Len(session.users) |->
                                IF session.users[k].userId = userId
                                  THEN [session.users[k] EXCEPT !.cursor = position]
                                  ELSE session.users[k]]
                    moved == [session EXCEPT !.users = users]
                IN  /\ sessions' = [sessions EXCEPT ![transcriptId] = moved]
                    /\ sent' = broadcastToSession(moved, readyState,
                                 [type |-> "cursor_update", userId |-> userId,
                                  position |-> position], userId)
           ELSE /\ sent' = <<>>
                /\ UNCHANGED sessions
  /\ UNCHANGED readyState

RECURSIVE RemoveSocket(_, _, _, _, _)
\* session.users.forEach over the entries all, from the k-th: an entry of the
\* socket is deleted and the users that are left are told;
\* acc = [users, sent]
RemoveSocket(all, k, ws, rs, acc) ==
  IF k > Len(all) THEN acc
  ELSE IF all[k].ws = ws
    THEN LET left == DeleteUser(acc.users, all[k].userId)
         IN  RemoveSocket(all, k + 1, ws, rs,
               [users |-> left,
                sent |-> acc.sent
                  \o BroadcastFrom(left, 1, rs,
                       [type |-> "user_left", userId |-> all[k].userId],
                       NotExcluded)])
    ELSE RemoveSocket(all, k + 1, ws, rs, acc)

\* the session without the entries of the socket, and the messages sent
WithoutSocket(session, ws, rs) ==
  RemoveSocket(session.users, 1, ws, rs,
               [users |-> session.users, sent |-> <<>>])

\* leaveSession
LeaveSession(ws, transcriptId) ==
  /\ readyState[ws] = "open"
  /\ LET session == sessions[transcriptId]
     IN  IF ~session.exists
           THEN /\ sent' = <<>>
                /\ UNCHANGED sessions
           ELSE \E left \in {WithoutSocket(session, ws, readyState)} :
                  /\ sessions' = [sessions EXCEPT ![transcriptId] =
                                    [session EXCEPT !.users = left.users]]
                  /\ sent' = left.sent
  /\ UNCHANGED readyState

\* the connection of a socket ends: its readyState is no longer OPEN
SocketCloses(ws) ==
  /\ readyState[ws] = "open"
  /\ readyState' = [readyState EXCEPT ![ws] = "closed"]
  /\ UNCHANGED <<sessions, sent>>

\* ws.on('close'): removeUserFromAllSessions
RemoveUserFromAllSessions(ws) ==
  /\ readyState[ws] = "closed"
  /\ readyState' = [readyState EXCEPT ![ws] = "gone"]
  /\ \E left \in
        {[t \in TranscriptIds |->
            IF sessions[t].exists
              THEN WithoutSocket(sessions[t], ws, readyState)
              ELSE [users |-> <<>>, sent |-> <<>>]]} :
       /\ sessions' = [t \in TranscriptIds |->
                         IF sessions[t].exists
                           THEN [sessions[t] EXCEPT !.users = left[t].users]
                           ELSE sessions[t]]
       /\ sent' = left[TheTranscript].sent

\* new Map() of sessions, every socket connected
CollabInit ==
  /\ sessions = [t \in TranscriptIds |-> NoSession]
  /\ readyState = [ws \in Sockets |-> "open"]
  /\ sent = <<>>

CollabIdle ==
  /\ sessions = [t \in TranscriptIds |-> NoSession]
  /\ readyState = [ws \in Sockets |-> "gone"]
  /\ sent = <<>>

(***************************************************************************)
(* Specifications                                                          *)
(***************************************************************************)
vars ==
  <<procVars, cleanupVars, valVars, hdrVars, ftrVars, srvVars, callVars,
    structVars, rerunVars, collabVars>>

Init ==
  /\ ProcInit
  /\ CleanupIdle
  /\ ValIdle
  /\ HdrIdle
  /\ FtrIdle
  /\ SrvIdle
  /\ CallIdle
  /\ StructIdle
  /\ RerunIdle
  /\ CollabIdle

\* Next leaves the state of the other operations alone
ProcFrame ==
  UNCHANGED <<cleanupVars, valVars, hdrVars, ftrVars, srvVars, callVars, structVars,
              rerunVars, collabVars>>

Next ==
  \/ ApplyRule /\ ProcFrame
  \/ ApplyStructure /\ ProcFrame

\* processTranscriptContent on every input of ProcInputs
Spec == Init /\ [][Next]_vars

InitCleanup ==
  /\ ProcIdle
  /\ CleanupInit
  /\ ValIdle
  /\ HdrIdle
  /\ FtrIdle
  /\ SrvIdle
  /\ CallIdle
  /\ StructIdle
  /\ RerunIdle
  /\ CollabIdle

\* CleanupNext leaves the state of the other operations alone
CleanupFrame ==
  UNCHANGED <<procVars, valVars, hdrVars, ftrVars, srvVars, callVars, structVars,
              rerunVars, collabVars>>

CleanupNext == CleanupPass /\ CleanupFrame

\* the cleanup rules, twice, on every string of the cleanup alphabet
SpecCleanup == InitCleanup /\ [][CleanupNext]_vars

InitValidate ==
  /\ ProcIdle
  /\ CleanupIdle
  /\ ValInit
  /\ HdrIdle
  /\ FtrIdle
  /\ SrvIdle
  /\ CallIdle
  /\ StructIdle
  /\ RerunIdle
  /\ CollabIdle

\* ValNext leaves the state of the other operations alone
ValFrame ==
  UNCHANGED <<procVars, cleanupVars, hdrVars, ftrVars, srvVars, callVars, structVars,
              rerunVars, collabVars>>

ValNext ==
  \/ ValidateLine /\ ValFrame
  \/ CheckHeader /\ ValFrame
  \/ CheckFooter /\ ValFrame
  \/ ComputeScore /\ ValFrame

\* validateTranscript on every text of at most MaxLines vocabulary lines
SpecValidate == InitValidate /\ [][ValNext]_vars

InitHeader ==
  /\ ProcIdle
  /\ CleanupIdle
  /\ ValIdle
  /\ HdrInit
  /\ FtrIdle
  /\ SrvIdle
  /\ CallIdle
  /\ StructIdle
  /\ RerunIdle
  /\ CollabIdle

\* HdrNext leaves the state of the other operations alone
HdrFrame ==
  UNCHANGED <<procVars, cleanupVars, valVars, ftrVars, srvVars, callVars, structVars,
              rerunVars, collabVars>>

HdrNext == GenerateHeader /\ HdrFrame

\* generateLVMPDHeader on every metadata of the input sets, on every host
SpecHeader == InitHeader /\ [][HdrNext]_vars

InitFooter ==
  /\ ProcIdle
  /\ CleanupIdle
  /\ ValIdle
  /\ HdrIdle
  /\ FtrInit
  /\ SrvIdle
  /\ CallIdle
  /\ StructIdle
  /\ RerunIdle
  /\ CollabIdle

\* FtrNext leaves the state of the other operations alone
FtrFrame ==
  UNCHANGED <<procVars, cleanupVars, valVars, hdrVars, srvVars, callVars, structVars,
              rerunVars, collabVars>>

FtrNext == GenerateFooter /\ FtrFrame

\* generateLVMPDFooter on every metadata of the input sets, on every host
SpecFooter == InitFooter /\ [][FtrNext]_vars

InitServer ==
  /\ ProcIdle
  /\ CleanupIdle
  /\ ValIdle
  /\ HdrIdle
  /\ FtrIdle
  /\ SrvInit
  /\ CallIdle
  /\ StructIdle
  /\ RerunIdle
  /\ CollabIdle

\* SrvNext leaves the state of the other operations alone
SrvFrame ==
  UNCHANGED <<procVars, cleanupVars, valVars, hdrVars, ftrVars, callVars, structVars,
              rerunVars, collabVars>>

SrvNext ==
  \/ UploadTranscript /\ SrvFrame
  \/ (\E r \in Requests : ProcessGet(r)) /\ SrvFrame
  \/ (\E r \in Requests : ProcessMark(r)) /\ SrvFrame
  \/ (\E r \in Requests : ProcessSave(r)) /\ SrvFrame
  \/ (\E r \in Requests : ProcessFail(r)) /\ SrvFrame

\* overlapping requests of the process route for one transcript
SpecServer == InitServer /\ [][SrvNext]_vars

InitCalls ==
  /\ ProcIdle
  /\ CleanupIdle
  /\ ValIdle
  /\ HdrIdle
  /\ FtrIdle
  /\ SrvIdle
  /\ CallInit
  /\ StructIdle
  /\ RerunIdle
  /\ CollabIdle

\* CallNext leaves the state of the other operations alone
CallFrame ==
  UNCHANGED <<procVars, cleanupVars, valVars, hdrVars, ftrVars, srvVars, structVars,
              rerunVars, collabVars>>

CallNext ==
  \/ (\E c \in ProcessCalls : CallProcess(c)) /\ CallFrame
  \/ CallRule /\ CallFrame
  \/ CallReturn /\ CallFrame
  \/ (\E c \in ValidateCalls : InvokeValidate(c)) /\ CallFrame

\* invocations of the two functions in any order, each call made at most MaxInvocations times
SpecCalls == InitCalls /\ [][CallNext]_vars

InitStructure ==
  /\ ProcIdle
  /\ CleanupIdle
  /\ ValIdle
  /\ HdrIdle
  /\ FtrIdle
  /\ SrvIdle
  /\ CallIdle
  /\ StructInit
  /\ RerunIdle
  /\ CollabIdle

\* StructNext leaves the state of the other operations alone
StructFrame ==
  UNCHANGED <<procVars, cleanupVars, valVars, hdrVars, ftrVars, srvVars, callVars,
              rerunVars, collabVars>>

StructNext ==
  \/ StructureStep /\ StructFrame
  \/ StructureReturn /\ StructFrame

\* applyLVMPDStructure on every text of at most MaxStructLines vocabulary lines
SpecStructure == InitStructure /\ [][StructNext]_vars

InitCollab ==
  /\ ProcIdle
  /\ CleanupIdle
  /\ ValIdle
  /\ HdrIdle
  /\ FtrIdle
  /\ SrvIdle
  /\ CallIdle
  /\ StructIdle
  /\ RerunIdle
  /\ CollabInit

\* CollabNext leaves the state of the other operations alone
CollabFrame ==
  UNCHANGED <<procVars, cleanupVars, valVars, hdrVars, ftrVars, srvVars, callVars,
              structVars, rerunVars>>

CollabNext ==
  \/ (\E ws \in Sockets, t \in TranscriptIds, u \in UserIds, n \in UserNames :
       JoinSession(ws, t, u, n)) /\ CollabFrame
  \/ (\E ws \in Sockets, t \in TranscriptIds, u \in UserIds, e \in EditOperations :
       HandleEdit(ws, t, u, e)) /\ CollabFrame
  \/ (\E ws \in Sockets, t \in TranscriptIds, u \in UserIds, p \in CursorPositions :
       HandleCursor(ws, t, u, p)) /\ CollabFrame
  \/ (\E ws \in Sockets, t \in TranscriptIds : LeaveSession(ws, t)) /\ CollabFrame
  \/ (\E ws \in Sockets : SocketCloses(ws)) /\ CollabFrame
  \/ (\E ws \in Sockets : RemoveUserFromAllSessions(ws)) /\ CollabFrame

\* the events of two connections on the sessions of CollaborationService
SpecCollab == InitCollab /\ [][CollabNext]_vars

InitRerun ==
  /\ RerunProcInit
  /\ CleanupIdle
  /\ ValIdle
  /\ HdrIdle
  /\ FtrIdle
  /\ SrvIdle
  /\ CallIdle
  /\ StructIdle
  /\ RerunInit
  /\ CollabIdle

\* the state outside procVars and rerunVars
ProcRerunFrame ==
  UNCHANGED <<cleanupVars, valVars, hdrVars, ftrVars, srvVars, callVars, structVars,
              collabVars>>

RerunNext ==
  \/ ApplyRule /\ ProcFrame
  \/ ApplyStructure /\ ProcFrame
  \/ Rerun /\ ProcRerunFrame

\* processTranscriptContent on every input of RerunInputs, then on its own output
SpecRerun == InitRerun /\ [][RerunNext]_vars

InitDocument ==
  /\ ProcIdle
  /\ CleanupIdle
  /\ DocInit
  /\ HdrIdle
  /\ FtrIdle
  /\ SrvIdle
  /\ CallIdle
  /\ StructIdle
  /\ RerunIdle
  /\ CollabIdle

DocNext ==
  \/ ValidateLine /\ ValFrame
  \/ CheckHeader /\ ValFrame
  \/ CheckFooter /\ ValFrame
  \/ ComputeScore /\ ValFrame

\* validateTranscript on every assembled document
SpecDocument == InitDocument /\ [][DocNext]_vars

(***************************************************************************)
(* Claims about the rule engine                                            *)
(***************************************************************************)
\* the spec's order: priority ascending, then declaration order ascending
DeclaredBefore(i, j) ==
  \/ LVMPD_PROCESSING_RULES[i].priority < LVMPD_PROCESSING_RULES[j].priority
  \/ /\ LVMPD_PROCESSING_RULES[i].priority = LVMPD_PROCESSING_RULES[j].priority
     /\ i < j

ExpectedOrder ==
  [k \in 1..NRules |->
     LVMPD_PROCESSING_RULES[
       CHOOSE i \in 1..NRules :
         Cardinality({j \in 1..NRules : DeclaredBefore(j, i)}) = k - 1]]

RECURSIVE ApplyFromTo(_, _, _, _)
\* rules j..k of order applied one after the other, each to the output of
\* the one before
ApplyFromTo(order, j, k, text) ==
  IF j > k THEN text
  ELSE LET after == Replace(order[j].pattern, text, order[j].replacement)
       IN  IF after = text THEN ApplyFromTo(order, j + 1, k, text)
           ELSE ApplyFromTo(order, j + 1, k, after)

ApplyInOrder(order, k, text) == ApplyFromTo(order, 1, k, text)

\* C1: the loop visits the rules once each, in ascending priority with ties in
\* declaration order: when it has visited them all, the text is the rules of
\* that order applied in sequence to the input, each to the output of the
\* previous one (never to the original input); the loop only moves forward,
\* one rule at a time, and returns after the last rule.
C1_PriorityOrder ==
  /\ [](pc = "rules" /\ ruleIdx = NRules =>
          processedContent = ApplyInOrder(ExpectedOrder, NRules, content))
  /\ [][pc = "rules" =>
          \/ ruleIdx < NRules /\ ruleIdx' = ruleIdx + 1 /\ pc' = "rules"
          \/ ruleIdx = NRules /\ ruleIdx' = ruleIdx /\ pc' = "done"]_vars

\* a run in which the order of two rules of equal priority matters, and a
\* later rule has worked on the output of an earlier one: "2nd" is not
\* spelled out (spell_numbers_1_10 runs before remove_date_ordinals)
C1_Witness ==
  /\ pc = "rules"
  /\ ruleIdx = NRules
  /\ content = <<"M", "h", " ", "2", "n", "d">>
  /\ processedContent = <<"M", "h", "-", "M", "h", " ", "2">>

RECURSIVE ExpectedLedger(_, _, _)
\* the ledger of rules j..k run from text: a rule is entered, with the number
\* of matches in the text before its substitution, iff it matched and its
\* substitution changed the text
ExpectedLedger(j, k, text) ==
  IF j > k THEN <<>>
  ELSE LET rule == ExpectedOrder[j]
           n == Len(MatchAll(rule.pattern, text))
           after == Replace(rule.pattern, text, rule.replacement)
       IN  IF n >= 1 /\ after # text
           THEN <<[rule |-> rule.name, matches |-> n]>>
                \o ExpectedLedger(j + 1, k, after)
           ELSE ExpectedLedger(j + 1, k, text)

\* C2: appliedRules holds exactly the rules that matched at least once and
\* whose substitution changed the text, each with the number of
\* non-overlapping matches in the text before the substitution.
C2_LedgerAccuracy ==
  pc = "done" => appliedRules = ExpectedLedger(1, NRules, content)

\* a rule (comma_spacing on ", ") matched, changed nothing and is not in the
\* ledger, while rules that changed the text are
C2_Witness ==
  /\ pc = "done"
  /\ \E k \in 1..NRules :
       LET before == ApplyInOrder(ExpectedOrder, k - 1, content)
       IN  /\ Len(MatchAll(ExpectedOrder[k].pattern, before)) >= 1
           /\ ApplyInOrder(ExpectedOrder, k, content) = before
           /\ \A e \in 1..Len(appliedRules) :
                appliedRules[e].rule # ExpectedOrder[k].name
  /\ appliedRules # <<>>

\* C3: the example line comes out with the discourse marker standardized, the
\* ordinal stripped, a space before pm and the hour still the digit 3.
C3_ExampleLine ==
  (pc = "done" /\ content = ExampleLine) =>
    processedContent =
      <<"Q",":"," ","M","h","-","M","h",","," ","I"," ","w","a","s"," ","t","h","e","r","e"," ","a","t"," ","3",":","0","0"," ","p","m"," ","o","n"," ","t","h","e"," ","2",".">>

\* C16: a clock time H:MM or HH:MM followed by optional white space and
\* am or pm comes out of the rule engine with its digits, one space and the
\* marker, for every hour from 1 to 12.
C16_ClockTimes ==
  pc = "done" =>
    \A h \in ClockHours, mm \in ClockMinutes, sp \in ClockSpaces,
       mk \in ClockMarkers :
      content = ClockText(h, mm, sp, mk)
        => processedContent = ClockText(h, mm, <<" ">>, mk)

(***************************************************************************)
(* Claims about the validator                                              *)
(***************************************************************************)
SeverityWeight(severity) ==
  CASE severity = "error" -> 15
    [] severity = "warning" -> 8
    [] severity = "info" -> 3

RECURSIVE Penalty(_, _)
\* the summed weights of the first k issues
Penalty(iss, k) ==
  IF k = 0 THEN 0 ELSE Penalty(iss, k - 1) + SeverityWeight(iss[k].severity)

\* C4: the score returned is max(0, 100 - 15 errors - 8 warnings - 3 infos)
\* over the issues returned, an integer in 0..100; and the scoring of an issue
\* list with one more issue is lower by that issue's weight, clamped at 0.
C4_ScoreFormula ==
  vpc = "done" =>
    /\ score = Max(0, 100 - Penalty(issues, Len(issues)))
    /\ score \in 0..100
    /\ \A k \in 0..(Len(issues) - 1) :
         ScoreOf(SubSeq(issues, 1, k + 1)) =
           Max(0, ScoreOf(SubSeq(issues, 1, k)) - SeverityWeight(issues[k + 1].severity))

\* a result whose weighted penalty exceeds 100 and whose score is clamped
C4_Witness ==
  /\ vpc = "done"
  /\ Penalty(issues, Len(issues)) > 100
  /\ score = 0
  /\ \E k \in 1..Len(issues) : issues[k].severity = "info"

\* C5: the issues returned are in non-decreasing line-number order.
C5_AscendingLines ==
  vpc = "done" =>
    \A k \in 1..(Len(issues) - 1) : issues[k].line <= issues[k + 1].line

\* the number of newline-separated lines: one more than the newlines
LineCount(text) == 1 + Cardinality({k \in 1..Len(text) : text[k] = "\n"})

\* C6: every issue carries a line number in 1..lineCount (the empty text
\* has one line).
C6_LineNumbersInRange ==
  \A k \in 1..Len(issues) : issues[k].line \in 1..LineCount(vContent)

\* a text of several lines with an issue on its first and on its last line
C6_Witness ==
  /\ vpc = "done"
  /\ LineCount(vContent) >= 2
  /\ \E k \in 1..Len(issues) : issues[k].line = LineCount(vContent)
  /\ \E k \in 1..Len(issues) : issues[k].line = 1 /\ issues[k].type # "header"

Contains(text, sub) ==
  \E i \in 1..Len(text) :
    \A j \in 1..Len(sub) : i + j - 1 <= Len(text) /\ text[i + j - 1] = sub[j]

IssuesOfType(iss, type) == {k \in 1..Len(iss) : iss[k].type = type}

\* C7: a header error, at line 1, exactly when the text lacks the header
\* marker; a footer error, at the last line, exactly when it lacks the footer
\* marker; the empty text with no speakers gives these two and score 70.
C7_HeaderFooterIssues ==
  vpc = "done" =>
    /\ IF Contains(vContent, HeaderMarker)
       THEN IssuesOfType(issues, "header") = {}
       ELSE /\ Cardinality(IssuesOfType(issues, "header")) = 1
            /\ \A k \in IssuesOfType(issues, "header") :
                 issues[k].line = 1 /\ issues[k].severity = "error"
    /\ IF Contains(vContent, FooterMarker)
       THEN IssuesOfType(issues, "footer") = {}
       ELSE /\ Cardinality(IssuesOfType(issues, "footer")) = 1
            /\ \A k \in IssuesOfType(issues, "footer") :
                 issues[k].line = LineCount(vContent) /\ issues[k].severity = "error"
    /\ (vContent = <<>> /\ speakers = <<>>) =>
         /\ issues = <<[line |-> 1, type |-> "header", severity |-> "error"],
                       [line |-> 1, type |-> "footer", severity |-> "error"]>>
         /\ score = 70

\* validate("", []) has returned
C7_Witness ==
  /\ vpc = "done"
  /\ vContent = <<>>
  /\ speakers = <<>>
  /\ Len(issues) = 2
  /\ score = 70

\* the lines of the text, as the claims count them
ClaimLines(text) == SplitOn(text, "\n")

HasIssue(lineNumber, type, severity) ==
  \E k \in 1..Len(issues) :
    /\ issues[k].line = lineNumber
    /\ issues[k].type = type
    /\ issues[k].severity = severity

\* a speaker label, optional white space, then a lowercase letter
StartsWithLabelThenLowercase(line) ==
  \E n \in 1..Len(line) :
    /\ \A j \in 1..n : line[j] \in UpperSet \cup DigitSet
    /\ n + 1 <= Len(line) /\ line[n + 1] = ":"
    /\ \E m \in (n + 2)..Len(line) :
         /\ line[m] \in LowerSet
         /\ \A j \in (n + 2)..(m - 1) : line[j] \in SpaceSet

\* C12: a line that starts with a speaker label followed, after optional
\* white space, by a lowercase letter, is longer than 10 characters and does
\* not end in ".", "!" or "?" gets a capitalization warning and a punctuation
\* warning with its line number.
C12_CapitalizationAndPunctuation ==
  vpc = "done" =>
    \A k \in 1..Len(ClaimLines(vContent)) :
      LET line == ClaimLines(vContent)[k]
      IN  (/\ StartsWithLabelThenLowercase(line)
           /\ Len(line) > 10
           /\ line[Len(line)] \notin {".", "!", "?"})
          => /\ HasIssue(k, "capitalization", "warning")
             /\ HasIssue(k, "punctuation", "warning")

\* "Q:hello there" as the second line, reported twice
C12_Witness ==
  /\ vpc = "done"
  /\ Len(ClaimLines(vContent)) = 2
  /\ ClaimLines(vContent)[2] = <<"Q",":","h","e","l","l","o"," ","t","h","e","r","e">>
  /\ HasIssue(2, "capitalization", "warning")
  /\ HasIssue(2, "punctuation", "warning")

\* a header or footer sentinel line
IsSentinelLine(line) ==
  \/ Contains(line, <<"T","h","e"," ","f","o","l","l","o","w","i","n","g">>)
  \/ Contains(line, <<"T","H","I","S"," ","S","T","A","T","E","M","E","N","T">>)

StartsWithConfiguredLabel(line) ==
  \E k \in 1..Len(speakers) :
    /\ Len(speakers[k]) <= Len(line)
    /\ \A j \in 1..Len(speakers[k]) : line[j] = speakers[k][j]

\* C13: a line gets a speaker_identification warning exactly when it is not
\* empty (nor blank), is not a header or footer sentinel line and does not
\* start with the label of a configured speaker; so "MAN: ..." is reported
\* when only Q: and A: are configured.
C13_SpeakerIdentification ==
  vpc = "done" =>
    \A k \in 1..Len(ClaimLines(vContent)) :
      LET line == ClaimLines(vContent)[k]
      IN  HasIssue(k, "speaker_identification", "warning")
            <=> /\ \E j \in 1..Len(line) : line[j] \notin SpaceSet
                /\ ~IsSentinelLine(line)
                /\ ~StartsWithConfiguredLabel(line)

\* the digit tokens of a line: its maximal runs of digits, as <<from, to>>
DigitTokens(line) ==
  {<<i, j>> \in (1..Len(line)) \X (1..Len(line)) :
     /\ i <= j
     /\ \A k \in i..j : line[k] \in DigitSet
     /\ (i = 1 \/ line[i - 1] \notin DigitSet)
     /\ (j = Len(line) \/ line[j + 1] \notin DigitSet)}

TokenValue(line, tok) == parseInt(SubSeq(line, tok[1], tok[2]))

\* C14: a line gets a number_format info issue exactly when one of its digit
\* tokens has a value from 1 to 10; a line whose digit tokens are all 11 or
\* more (25, 2024) gets none.
C14_NumberFormat ==
  vpc = "done" =>
    \A k \in 1..Len(ClaimLines(vContent)) :
      LET line == ClaimLines(vContent)[k]
      IN  HasIssue(k, "number_format", "info")
            <=> \E tok \in DigitTokens(line) : TokenValue(line, tok) \in 1..10

IsWordChar(line, p) ==
  p >= 1 /\ p <= Len(line) /\ line[p] \in UpperSet \cup LowerSet \cup DigitSet \cup {"_"}

\* the whole word Mh at position i
WholeWordMhAt(line, i) ==
  /\ i >= 1 /\ i + 1 <= Len(line)
  /\ line[i] = "M" /\ line[i + 1] = "h"
  /\ ~IsWordChar(line, i - 1)
  /\ ~IsWordChar(line, i + 2)

\* a whole word Mh at position i that is not one half of Mh-Mh
UnstandardizedMhAt(line, i) ==
  /\ WholeWordMhAt(line, i)
  /\ ~(i + 2 <= Len(line) /\ line[i + 2] = "-" /\ WholeWordMhAt(line, i + 3))
  /\ ~(i - 1 >= 1 /\ line[i - 1] = "-" /\ WholeWordMhAt(line, i - 3))

RECURSIVE StandardizedFrom(_, _)
\* the line from position i on, with each unstandardized Mh made Mh-Mh
StandardizedFrom(line, i) ==
  IF i > Len(line) THEN <<>>
  ELSE IF UnstandardizedMhAt(line, i)
       THEN <<"M", "h", "-", "M", "h">> \o StandardizedFrom(line, i + 2)
       ELSE <<line[i]>> \o StandardizedFrom(line, i + 1)

\* C15: a line gets a discourse_marker info issue exactly when it holds a
\* whole word Mh that is not part of Mh-Mh, also when an Mh-Mh stands elsewhere
\* in the line; the suggestion is the line with each such Mh made Mh-Mh.
C15_DiscourseMarker ==
  vpc = "done" =>
    \A k \in 1..Len(ClaimLines(vContent)) :
      LET line == ClaimLines(vContent)[k]
      IN  /\ HasIssue(k, "discourse_marker", "info")
               <=> \E i \in 1..Len(line) : UnstandardizedMhAt(line, i)
          /\ \A n \in 1..Len(issues) :
               (issues[n].line = k /\ issues[n].type = "discourse_marker")
                 => issues[n].suggestion = StandardizedFrom(line, 1)

(***************************************************************************)
(* Claims about the number rule                                            *)
(***************************************************************************)
SpelledOut ==
  << <<"o","n","e">>,
     <<"t","w","o">>,
     <<"t","h","r","e","e">>,
     <<"f","o","u","r">>,
     <<"f","i","v","e">>,
     <<"s","i","x">>,
     <<"s","e","v","e","n">>,
     <<"e","i","g","h","t">>,
     <<"n","i","n","e">>,
     <<"t","e","n">> >>

\* the whole-word digit token 10 at position i
WholeWordTenAt(text, i) ==
  /\ i + 1 <= Len(text) /\ text[i] = "1" /\ text[i + 1] = "0"
  /\ ~IsWordChar(text, i - 1) /\ ~IsWordChar(text, i + 2)

\* a whole-word digit token 1 to 9 at position i
WholeWordDigitAt(text, i) ==
  /\ text[i] \in DigitSet \ {"0"}
  /\ ~IsWordChar(text, i - 1) /\ ~IsWordChar(text, i + 1)

RECURSIVE SpelledFrom(_, _)
\* the text from position i on, with each whole-word token 1 to 10 spelled
\* out and everything else as it is
SpelledFrom(text, i) ==
  IF i > Len(text) THEN <<>>
  ELSE IF WholeWordTenAt(text, i)
       THEN SpelledOut[10] \o SpelledFrom(text, i + 2)
  ELSE IF WholeWordDigitAt(text, i)
       THEN SpelledOut[CHOOSE d \in 1..9 : ToString(d) = text[i]]
            \o SpelledFrom(text, i + 1)
  ELSE <<text[i]>> \o SpelledFrom(text, i + 1)

SpellStep == CHOOSE k \in 1..NRules : sortedRules[k].name = "spell_numbers_1_10"

\* C17: the engine's number step replaces every whole-word digit token 1 to
\* 10 by its lowercase number word and changes nothing else, so numbers of 11
\* or more stay digits; "saw N men" comes out with N spelled out for N from 1
\* to 10 and as it was for the other tokens.
C17_SpellNumbers ==
  /\ [][(pc = "rules" /\ ruleIdx = SpellStep - 1 /\ ruleIdx' = SpellStep)
          => processedContent' = SpelledFrom(processedContent, 1)]_vars
  /\ [](pc = "done" =>
          \A n \in NumberTokens :
            content = <<"s", "a", "w", " ">> \o n \o <<" ", "m", "e", "n">>
              => processedContent =
                   <<"s", "a", "w", " ">>
                   \o (IF \E d \in 1..10 : ToString(d) = n[1] /\ Len(n) = 1
                       THEN SpelledOut[CHOOSE d \in 1..10 : ToString(d) = n[1]]
                       ELSE IF n = <<"1", "0">> THEN SpelledOut[10] ELSE n)
                   \o <<" ", "m", "e", "n">>)

\* "saw 10 men" has come out as "saw ten men"
C17_Witness ==
  /\ pc = "done"
  /\ content = <<"s","a","w"," ","1","0"," ","m","e","n">>
  /\ processedContent = <<"s","a","w"," ","t","e","n"," ","m","e","n">>

(***************************************************************************)
(* Claims about the structural cleanup rules and the header                *)
(***************************************************************************)
\* C8: a second pass of the structural cleanup rules changes nothing.
C8_CleanupIdempotent ==
  [][cleanupPass = 1 /\ cleanupPass' = 2 => cleanupText' = cleanupText]_vars

MissingOrEmpty(v) == ~v.defined \/ Len(v.str) = 0

AnyHeaderFieldMissing ==
  \/ MissingOrEmpty(Field(detectiveInfo, "name"))
  \/ MissingOrEmpty(Field(detectiveInfo, "badge"))
  \/ MissingOrEmpty(Field(detectiveInfo, "section"))
  \/ MissingOrEmpty(Field(interviewInfo, "date"))
  \/ MissingOrEmpty(Field(interviewInfo, "time"))

\* C9: the header is the empty string when any of name, badge, section, date
\* and time is missing or empty, and otherwise a non-empty string containing
\* the header marker, with every field it was given in it.
C9_HeaderAllOrNothing ==
  hpc = "done" =>
    IF AnyHeaderFieldMissing THEN header = <<>>
    ELSE /\ header # <<>>
         /\ Contains(header, HeaderMarker)
         /\ Contains(header, detectiveInfo.name.str)
         /\ Contains(header, detectiveInfo.badge.str)
         /\ Contains(header, detectiveInfo.section.str)

\* a call given the five fields, on a date that does not parse, has returned
C9_Witness ==
  /\ hpc = "done"
  /\ ~AnyHeaderFieldMissing
  /\ ~NewDate(interviewInfo.date.str).valid
  /\ header # <<>>
  /\ Contains(header, HeaderMarker)

\* the MM/DD/YYYY of the calendar date written in a YYYY-MM-DD string
SuppliedDate(str) ==
  SubSeq(str, 6, 7) \o <<"/">> \o SubSeq(str, 9, 10) \o <<"/">> \o SubSeq(str, 1, 4)

\* "The following is ... by DETECTIVE J. SMITH, P# 1234, LVMPD Homicide
\*  Detail, on 03/15/2024 at 1430 hours.\n\n"
ExampleHeader ==
  <<"T","h","e"," ","f","o","l","l","o","w","i","n","g"," ","i","s"," ","t","h","e"," ","t","r","a","n","s","c","r","i","p","t","i","o","n"," ","o","f"," ","a"," ","t","a","p","e","-","r","e","c","o","r","d","e","d"," ","i","n","t","e","r","v","i","e","w"," ","c","o","n","d","u","c","t","e","d"," ","b","y"," ","D","E","T","E","C","T","I","V","E"," ","J","."," ","S","M","I","T","H",","," ","P","#"," ","1","2","3","4",","," ","L","V","M","P","D"," ","H","o","m","i","c","i","d","e"," ","D","e","t","a","i","l",","," ","o","n"," ","0","3","/","1","5","/","2","0","2","4"," ","a","t"," ","1","4","3","0"," ","h","o","u","r","s",".","\n","\n">>

\* C10: for complete metadata the header renders the supplied calendar date
\* as MM/DD/YYYY on every host, and the time without its colon; the example
\* metadata gives the example header.
C10_SuppliedCalendarDate ==
  (hpc = "done" /\ ~AnyHeaderFieldMissing /\ NewDate(interviewInfo.date.str).valid) =>
    /\ Contains(header, <<" ", "o", "n", " ">> \o SuppliedDate(interviewInfo.date.str)
                        \o <<" ", "a", "t", " ">>
                        \o SelectSeq(interviewInfo.time.str, LAMBDA c : c # ":")
                        \o <<" ", "h", "o", "u", "r", "s", ".">>)
    /\ (/\ detectiveInfo.name.str = <<"J","."," ","S","M","I","T","H">>
        /\ detectiveInfo.badge.str = <<"1","2","3","4">>
        /\ detectiveInfo.section.str = <<"H","o","m","i","c","i","d","e">>
        /\ interviewInfo.date.str = <<"2","0","2","4","-","0","3","-","1","5">>
        /\ interviewInfo.time.str = <<"1","4",":","3","0">>)
       => header = ExampleHeader

(***************************************************************************)
(* Claims about the footer                                                 *)
(***************************************************************************)
AnyFooterFieldMissing ==
  \/ MissingOrEmpty(Field(footerInfo, "date"))
  \/ MissingOrEmpty(Field(footerInfo, "time"))
  \/ MissingOrEmpty(Field(footerInfo, "location"))

EndsWith(text, suffix) ==
  /\ Len(suffix) <= Len(text)
  /\ SubSeq(text, Len(text) - Len(suffix) + 1, Len(text)) = suffix

\* the footer's closing words for the calendar date written in a YYYY-MM-DD
\* string and a time
SuppliedDateWords(str, time) ==
  <<"O","N"," ","T","H","E"," ">> \o dayNames[parseInt(SubSeq(str, 9, 10))]
  \o <<" ","D","A","Y"," ","O","F"," ">> \o monthNames[parseInt(SubSeq(str, 6, 7))]
  \o <<",", " ">> \o SubSeq(str, 1, 4)
  \o <<" ", "A", "T", " ">> \o SelectSeq(time, LAMBDA c : c # ":")
  \o <<" ","H","O","U","R","S",".">>

\* C11: the footer is empty when date, time or location is missing;
\* otherwise it names the day and month of the supplied calendar date, the
\* location in upper case and the time without its colon; 2024-03-15, 14:30,
\* "metro hq" gives "... METRO HQ ON THE FIFTEENTH DAY OF MARCH, 2024 AT 1430
\* HOURS."
C11_FooterOfSuppliedDate ==
  fpc = "done" =>
    IF AnyFooterFieldMissing THEN footer = <<>>
    ELSE NewDate(footerInfo.date.str).valid =>
           /\ Contains(footer, MapChars(footerInfo.location.str, TRUE))
           /\ EndsWith(footer, SuppliedDateWords(footerInfo.date.str,
                                                 footerInfo.time.str))
           /\ (/\ footerInfo.date.str = <<"2","0","2","4","-","0","3","-","1","5">>
               /\ footerInfo.time.str = <<"1","4",":","3","0">>
               /\ footerInfo.location.str = <<"m","e","t","r","o"," ","h","q">>)
              => /\ Contains(footer, <<"M","E","T","R","O"," ","H","Q">>)
                 /\ EndsWith(footer,
                      <<"O","N"," ","T","H","E"," ","F","I","F","T","E","E","N","T","H"," ","D","A","Y"," ","O","F"," ","M","A","R","C","H",","," ","2","0","2","4"," ","A","T"," ","1","4","3","0"," ","H","O","U","R","S",".">>)

(***************************************************************************)
(* Claims about the server                                                 *)
(***************************************************************************)
\* the stored sequence is kept as a prefix by the step
VersionsKept ==
  transcripts.stored =>
    /\ transcripts'.stored
    /\ Len(transcripts'.versions) >= Len(transcripts.versions)
    /\ SubSeq(transcripts'.versions, 1, Len(transcripts.versions))
         = transcripts.versions

\* a request that completes in the step adds one snapshot of type "processed"
OneProcessedAdded ==
  \A r \in Requests :
    (request[r].pc = "marked" /\ request'[r].pc = "done") =>
      /\ Len(transcripts'.versions) = Len(transcripts.versions) + 1
      /\ transcripts'.versions[Len(transcripts'.versions)].type = "processed"

\* every request in flight read the versions the storage holds now
NoStaleRead ==
  \A r \in Requests :
    request[r].pc \in {"got", "marked"} =>
      request[r].transcript.versions = transcripts.versions

\* C18: the versions sequence is append-only: no step of a processing
\* request removes or alters a snapshot already stored, and a request that
\* completes adds exactly one snapshot of type "processed", also when
\* requests for the same transcript overlap.
C18_VersionsAppendOnly ==
  [][VersionsKept /\ OneProcessedAdded]_vars

\* the same steps, taken while no request in flight holds a stale read
AppendOnlyWithoutStaleRead ==
  [][NoStaleRead => (VersionsKept /\ OneProcessedAdded)]_vars

IsSpeakerLine(line) == Test(SpeakerLineRe, Trim(line))

\* the letter that labels a speaker line
SpeakerOfLine(line) == <<Trim(line)[1]>>

\* the indexes of the speaker lines in front of the k-th input line
SpeakerLinesBefore(k) ==
  {j \in 1..(k - 1) : IsSpeakerLine(StructLines[j])}

\* the k-th input line is a speaker line whose speaker differs from the
\* speaker of the speaker line that precedes it most closely
FollowsOtherSpeaker(k) ==
  /\ SpeakerLinesBefore(k) # {}
  /\ LET j == CHOOSE j \in SpeakerLinesBefore(k) :
                \A h \in SpeakerLinesBefore(k) : h <= j
     IN  SpeakerOfLine(StructLines[k]) # SpeakerOfLine(StructLines[j])

\* the step emits a blank line first
BlankEmitted ==
  /\ Len(processedLines') > Len(processedLines)
  /\ processedLines'[Len(processedLines) + 1] = <<>>

\* the step visits a speaker line
VisitsSpeakerLine ==
  /\ spc = "loop"
  /\ structIdx' = structIdx + 1
  /\ IsSpeakerLine(StructLines[structIdx + 1])

\* C20: the formatter emits a blank separator line immediately before a
\* speaker line exactly when the line's speaker differs from the speaker of
\* the immediately preceding speaker line; it emits none before the first
\* speaker line of the document, also when non-speaker lines precede it.
C20_BlankBeforeNewSpeaker ==
  [][VisitsSpeakerLine => (BlankEmitted <=> FollowsOtherSpeaker(structIdx + 1))]_vars

\* the same steps on documents that have emitted nothing in front of their
\* first speaker line
BlankBeforeNewSpeakerAfterSpeaker ==
  [][(VisitsSpeakerLine /\ (processedLines = <<>> \/ previousSpeaker # <<>>))
       => (BlankEmitted <=> FollowsOtherSpeaker(structIdx + 1))]_vars

\* the k-th smallest member of a set of numbers
NthOf(S, k) == CHOOSE x \in S : Cardinality({y \in S : y < x}) = k - 1

\* the utterance of a speaker line: what follows the label, trimmed
UtteranceOf(line) == Trim(Slice(Trim(line), 3, Len(Trim(line))))

\* the positions of a '.', '!' or '?' that is followed by white space
SentenceCuts(u) ==
  {i \in 1..(Len(u) - 1) : u[i] \in {".", "!", "?"} /\ u[i + 1] \in SpaceSet}

\* where the sentences end: at every cut and at the end of the utterance
SentenceEnds(u) == SentenceCuts(u) \cup {Len(u)}

\* where the sentences start: at the start of the utterance and at the
\* first character behind the white space that follows a cut
SentenceStarts(u) ==
  {1} \cup {j \in 2..Len(u) :
              /\ u[j] \notin SpaceSet
              /\ \E i \in SentenceCuts(u) :
                   i + 1 < j /\ \A h \in (i + 1)..(j - 1) : u[h] \in SpaceSet}

\* the sentences of an utterance that is not empty, in order
SentencesOf(u) ==
  [k \in 1..Cardinality(SentenceEnds(u)) |->
     Slice(u, NthOf(SentenceStarts(u), k), NthOf(SentenceEnds(u), k))]

\* the lines the claim expects for a speaker line
ExpectedSpeakerLines(line) ==
  LET label == <<Trim(line)[1], ":">>
      u == UtteranceOf(line)
      s == SentencesOf(u)
  IN  IF u = <<>> THEN <<label>>
      ELSE [k \in 1..Len(s) |->
              IF k = 1 THEN label \o <<" ">> \o s[1]
              ELSE <<" ", " ", " ", " ", " ">> \o s[k]]

\* the lines the step emits, without the blank separator line
EmittedLines ==
  LET e == SubSeq(processedLines', Len(processedLines) + 1, Len(processedLines'))
  IN  IF e # <<>> /\ e[1] = <<>> THEN Tail(e) ELSE e

\* C21: for every speaker line the formatter splits the utterance after each
\* '.', '!' or '?' that is followed by white space, keeping the punctuation,
\* emits the first sentence on the line of the label behind one space and
\* every further sentence on its own line behind exactly 5 spaces, in order
\* and with no sentence lost; an empty utterance gives the bare label.
C21_SentencesOfSpeakerLine ==
  [][VisitsSpeakerLine
       => EmittedLines = ExpectedSpeakerLines(StructLines[structIdx + 1])]_vars

\* a speaker line of four sentences has been visited, and one with an empty
\* utterance before it
C21_Witness ==
  /\ spc = "loop"
  /\ structIdx >= 2
  /\ IsSpeakerLine(StructLines[structIdx])
  /\ Cardinality(SentenceCuts(UtteranceOf(StructLines[structIdx]))) = 3
  /\ IsSpeakerLine(StructLines[structIdx - 1])
  /\ UtteranceOf(StructLines[structIdx - 1]) = <<>>
  /\ Len(processedLines) >= 5

FiveSpaces == <<" ", " ", " ", " ", " ">>

\* the step visits a line that is not a speaker line
VisitsOtherLine ==
  /\ spc = "loop"
  /\ structIdx' = structIdx + 1
  /\ ~IsSpeakerLine(StructLines[structIdx + 1])

\* what the claim expects the step to add for the k-th input line
ExpectedOtherLine(k) ==
  IF Trim(StructLines[k]) = <<>> THEN <<>>
  ELSE IF SpeakerLinesBefore(k) # {}
       THEN <<FiveSpaces \o Trim(StructLines[k])>>
       ELSE <<Trim(StructLines[k])>>

\* C22: the formatter drops every input line that is empty after trimming,
\* emits every non-speaker line that comes after some speaker line as its
\* trimmed text behind exactly 5 spaces, and emits the non-speaker lines in
\* front of every speaker line as their trimmed text without indent.
C22_OtherLines ==
  [][VisitsOtherLine
       => processedLines' = processedLines \o ExpectedOtherLine(structIdx + 1)]_vars

\* a line in front of the first speaker line and an untrimmed line behind it
\* have been visited
C22_Witness ==
  /\ spc = "loop"
  /\ structIdx = 3
  /\ ~IsSpeakerLine(StructLines[1]) /\ Trim(StructLines[1]) # <<>>
  /\ IsSpeakerLine(StructLines[2])
  /\ ~IsSpeakerLine(StructLines[3]) /\ Trim(StructLines[3]) # <<>>
  /\ Trim(StructLines[3]) # StructLines[3]
  /\ processedLines[1] = StructLines[1]

(***************************************************************************)
(* Claims about the rule engine applied to its own output                  *)
(***************************************************************************)
\* C23: processTranscriptContent is idempotent: run on its own output it
\* returns the same text and an empty appliedRules list, for every input.
C23_Idempotent ==
  (pc = "done" /\ run = 2) =>
    /\ processedContent = firstResult.processedContent
    /\ appliedRules = <<>>

\* the second invocation returns the text of the first when that text holds
\* no digit, no marker "Mh" and no word "inaudible"
SameTextWithoutMarkers ==
  (/\ pc = "done" /\ run = 2
   /\ \A i \in 1..Len(firstResult.processedContent) :
        firstResult.processedContent[i] \notin
          {"0", "1", "2", "3", "4", "5", "6", "7", "8", "9"}
   /\ ~Contains(firstResult.processedContent, <<"M", "h">>)
   /\ ~Contains(firstResult.processedContent,
                <<"i", "n", "a", "u", "d", "i", "b", "l", "e">>)) =>
    processedContent = firstResult.processedContent

(***************************************************************************)
(* Claims about speaker turns across the rewrite rules                     *)
(***************************************************************************)
\* the labels of the lines of a text that start with a speaker label
SpeakersOf(text) ==
  LET turns == SelectSeq(LinesOf(text), IsSpeakerLine)
  IN  [k \in 1..Len(turns) |-> SpeakerOfLine(turns[k])]

\* every non-empty line of the text starts with a speaker label
OnlySpeakerTurns(text) ==
  \A k \in 1..Len(LinesOf(text)) :
    Trim(LinesOf(text)[k]) = <<>> \/ IsSpeakerLine(LinesOf(text)[k])

\* C24: the rewrite rules never join two speaker turns: when every non-empty
\* line of the input starts with a speaker label, the output has the same
\* speaker labels at the start of its lines, in the same order.
C24_TurnsKept ==
  (pc = "done" /\ OnlySpeakerTurns(content)) =>
    SpeakersOf(processedContent) = SpeakersOf(content)

\* no turn is lost when no "," stands in front of a line break
NoTurnLostWithoutCommaAtBreak ==
  (/\ pc = "done" /\ OnlySpeakerTurns(content)
   /\ ~Contains(content, <<",", "\n">>)) =>
    Len(SpeakersOf(processedContent)) >= Len(SpeakersOf(content))

\* two turns of the input are one line of the output
TurnsJoined ==
  /\ pc = "done" /\ OnlySpeakerTurns(content)
  /\ Len(SpeakersOf(content)) = 2
  /\ Len(SpeakersOf(processedContent)) = 1

(***************************************************************************)
(* Claims about validating the result of processTranscriptContent          *)
(***************************************************************************)
\* the types of the issues validateTranscript's line checks raise on a text
IssueTypesOf(text) ==
  LET found == ValidateLines(LinesOf(text), 1, <<>>)
  IN  {found[k].type : k \in 1..Len(found)}

\* C25: validating the text processTranscriptContent returns raises no
\* discourse_marker, number_format, date_format or time_format issue.
C25_NoFormatIssues ==
  pc = "done" =>
    IssueTypesOf(processedContent)
      \cap {"discourse_marker", "number_format", "date_format", "time_format"}
      = {}

\* the returned text raises no discourse_marker issue
NoMarkerIssue ==
  pc = "done" => "discourse_marker" \notin IssueTypesOf(processedContent)

\* "2nd" is returned as "2", which raises a number_format issue
OrdinalLeavesDigit ==
  /\ pc = "done"
  /\ content = <<"2", "n", "d">>
  /\ processedContent = <<"2">>
  /\ "number_format" \in IssueTypesOf(processedContent)

(***************************************************************************)
(* Claims about validating an assembled document                           *)
(***************************************************************************)
\* C26: a document assembled from complete metadata and a body of
\* capitalized, punctuated speaker lines without digits, markers or ordinals
\* validates with zero issues and score 100.
C26_DocumentValidates ==
  vpc = "done" => issues = <<>> /\ score = 100

\* the k-th line of the validated text is an indented continuation line
IsContinuationLine(k) == StartsWith(LinesOf(vContent)[k], FiveSpaces)

\* the issues of a document are number_format issues of the header line and
\* of the footer line, and speaker_identification issues of continuation lines
OnlyHeaderFooterAndContinuationIssues ==
  vpc = "done" =>
    \A k \in 1..Len(issues) :
      \/ /\ issues[k].type = "number_format"
         /\ issues[k].line \in {1, Len(LinesOf(vContent))}
      \/ /\ issues[k].type = "speaker_identification"
         /\ IsContinuationLine(issues[k].line)

\* a document whose body has no continuation line is validated
DocumentWithoutContinuationDone ==
  /\ vpc = "done"
  /\ Len(LinesOf(vContent)) >= 5
  /\ \A k \in 1..Len(LinesOf(vContent)) : ~IsContinuationLine(k)

(***************************************************************************)
(* Claims about the text the formatter returns                             *)
(***************************************************************************)
IsBlankLine(line) == Trim(line) = <<>>

\* C27: the text the formatter returns never begins or ends with a blank
\* line, never holds two consecutive blank lines, and every blank line of it
\* is immediately followed by a speaker line.
C27_BlankLinesOnlyBeforeSpeakers ==
  (spc = "done" /\ structured # <<>>) =>
    LET out == LinesOf(structured)
    IN  /\ ~IsBlankLine(out[1])
        /\ ~IsBlankLine(out[Len(out)])
        /\ \A k \in 1..(Len(out) - 1) :
             IsBlankLine(out[k]) =>
               /\ ~IsBlankLine(out[k + 1])
               /\ IsSpeakerLine(out[k + 1])

\* a text whose first line is blank has been formatted, and the result holds
\* a blank line between two speakers
C27_Witness ==
  /\ spc = "done"
  /\ Len(StructLines) = 3
  /\ IsBlankLine(StructLines[1])
  /\ structured # <<>>
  /\ \E k \in 1..Len(LinesOf(structured)) : IsBlankLine(LinesOf(structured)[k])

\* C28: the formatter is idempotent: formatting the text it returned returns
\* that text unchanged, for every input.
C28_FormatterIdempotent ==
  spc = "done" => applyLVMPDStructure(structured) = structured

\* no sentence after the first on a speaker line of the text begins with a
\* speaker label
NoLabelInsideTurn(text) ==
  \A k \in 1..Len(LinesOf(text)) :
    IsSpeakerLine(LinesOf(text)[k]) =>
      \A j \in 2..Len(SentencesOf(UtteranceOf(LinesOf(text)[k]))) :
        ~IsSpeakerLine(SentencesOf(UtteranceOf(LinesOf(text)[k]))[j])

\* formatting twice is formatting once for the texts in which no later
\* sentence of a speaker line begins with a speaker label
IdempotentWithoutLabelInsideTurn ==
  (spc = "done" /\ NoLabelInsideTurn(structContent)) =>
    applyLVMPDStructure(structured) = structured

(***************************************************************************)
(* Claims about the status a process request leaves                        *)
(***************************************************************************)
\* the request has sent its response
HasReturned(r) == request[r].pc \in {"done", "failed", "notfound"}

\* the step takes request r to the position to
Reaches(r, to) == request[r].pc # to /\ request'[r].pc = to

\* what the steps of request r do to the status of the record
StatusSteps(r) ==
  /\ Reaches(r, "marked") =>
       /\ request[r].pc = "got"
       /\ transcripts'.stored /\ transcripts'.status = "processing"
  /\ Reaches(r, "done") =>
       /\ request[r].pc = "marked"
       /\ transcripts'.stored /\ transcripts'.status = "ready"
  /\ Reaches(r, "failed") =>
       (transcripts.stored =>
          transcripts'.stored /\ transcripts'.status = "error")
  /\ Reaches(r, "notfound") =>
       /\ ~transcripts.stored
       /\ transcripts' = transcripts
  /\ (request'[r] # request[r] /\ ~transcripts.stored) =>
       transcripts' = transcripts

\* every request has returned and the status is not "processing"
SettledStatus ==
  (transcripts.stored /\ \A r \in Requests : HasReturned(r)) =>
    transcripts.status # "processing"

RECURSIVE Replay(_)
\* the operations of a log applied in order, from the empty string
Replay(operations) ==
  IF operations = <<>> THEN <<>>
  ELSE ApplyOperation(Replay(SubSeq(operations, 1, Len(operations) - 1)),
                      operations[Len(operations)])

\* the content of every session is the replay of its log, and no operation
\* is in a log twice
ContentIsReplay ==
  \A t \in TranscriptIds :
    sessions[t].exists =>
      /\ sessions[t].currentContent = Replay(sessions[t].operations)
      /\ \A i, j \in 1..Len(sessions[t].operations) :
           sessions[t].operations[i].id = sessions[t].operations[j].id => i = j

\* the users of the session whose socket is open, other than userId
OpenUsersBut(session, userId) ==
  {k \in 1..Len(session.users) :
     /\ session.users[k].userId # userId
     /\ readyState[session.users[k].ws] = "open"}

\* the step handles an edit of an existing session: the operation is added
\* to the end of the log and sent, once, to every user of the session with
\* an open socket other than the user named in the edit, and to nobody else
EditAppendedAndSent(t, userId, edit) ==
  LET session == sessions[t]
      operation == NewOperation(session, userId, edit)
  IN  session.exists =>
        /\ sessions'[t].operations = Append(session.operations, operation)
        /\ \A k \in OpenUsersBut(session, userId) :
             Cardinality({j \in 1..Len(sent') :
                            sent'[j] = Send(session.users[k].ws,
                                            session.users[k].userId,
                                            [type |-> "operation",
                                             operation |-> operation])}) = 1
        /\ Len(sent') = Cardinality(OpenUsersBut(session, userId))
        /\ \A j \in 1..Len(sent') : sent'[j].to # userId

\* a step that is not an edit of an existing session leaves the logs alone
LogKept ==
  \A t \in TranscriptIds :
    (sessions[t].exists /\ sessions'[t].exists) =>
      \/ sessions'[t].operations = sessions[t].operations
      \/ \E ws \in Sockets, u \in UserIds, e \in EditOperations :
           HandleEdit(ws, t, u, e)

\* C30: after any sequence of join, edit, cursor, leave and close events the
\* content of a session is the replay of its operations log from the empty
\* string, every accepted edit is added to the log exactly once, and each
\* edit is sent to every user of the session with an open socket other than
\* the user named in the edit, and never to that user.
C30_LogAndBroadcast ==
  /\ []ContentIsReplay
  /\ [][/\ LogKept
        /\ \A ws \in Sockets, t \in TranscriptIds, u \in UserIds,
              e \in EditOperations :
             HandleEdit(ws, t, u, e) => EditAppendedAndSent(t, u, e)]_vars

\* two edits were accepted, the second sent to the other user of the
\* session while the socket of the user it names is open too
C30_Witness ==
  /\ sessions[TheTranscript].exists
  /\ Len(sessions[TheTranscript].operations) = 2
  /\ Len(sessions[TheTranscript].users) = 2
  /\ readyState = [ws \in Sockets |-> "open"]
  /\ sessions[TheTranscript].users[1].ws # sessions[TheTranscript].users[2].ws
  /\ Len(sent) = 1
  /\ sent[1].message.type = "operation"
  /\ sent[1].message.operation.id = 2
  /\ sessions[TheTranscript].currentContent # <<>>

=============================================================================
